---- MODULE Spec2Model ----
(***************************************************************************)
(* A model of the chess rules engine (ChessGameEngine): the game state,    *)
(* move validation, move execution, check / checkmate / stalemate          *)
(* detection and castling.  A game state is the record the engine passes   *)
(* around; board[y][x] is indexed row first, as in the source: row 7 is    *)
(* white's back rank, row 0 is black's.                                    *)
(***************************************************************************)
EXTENDS Integers, Sequences, FiniteSets, TLC

VARIABLES
    gameState,      \* the GameState held by the caller of the rules engine
    tt,             \* the TranspositionTable: table, maxSize, cleanupThreshold
    now,            \* Date.now()
    seen,           \* how many of the positions have been passed to set
    ttReturned,     \* the last call of set or get, and what get returned
    ai,             \* ChessAI.findBestMove: where it stands, and its locals
    heap,           \* the objects of the JavaScript heap, by address
    stateRef,       \* the address of the GameState object the caller holds
    call,           \* the last call of the rules engine made on the heap
    search,         \* the calls of minimax under way, and what the last one returned
    manager,        \* the ChessAIManager, and the answer of its findBestMove
    gsm,            \* the GameStateManager
    clipboard,      \* the text on the system clipboard
    session,        \* the SimpleChessApp component: its state, effects and timers
    gateway         \* the ChessGateway with its ChessGameService

ttVars == << tt, now, seen, ttReturned >>

heapVars == << heap, stateRef, call >>

\* The variables of the components added to the engine, the table and the
\* search driver.
appVars == << manager, gsm, clipboard, session, gateway >>

extVars == << search, appVars >>

vars == << gameState, ttVars, ai, heapVars, extVars >>

----------------------------------------------------------------------------
(* Values                                                                  *)

WHITE == "white"
BLACK == "black"
PAWN == "pawn"
ROOK == "rook"
KNIGHT == "knight"
BISHOP == "bishop"
QUEEN == "queen"
KING == "king"

Undefined == "undefined"

Coord == 0..7

Pos(px, py) == [x |-> px, y |-> py]

Squares == { Pos(px, py) : px \in Coord, py \in Coord }

\* The empty square (null in the source), shaped like a piece so that it can
\* be compared with one.
Null ==
    [id |-> "null", type |-> "null", color |-> "null",
     position |-> Pos(0, 0), hasMoved |-> FALSE]

Abs(n) == IF n < 0 THEN -n ELSE n

Sign(n) == IF n < 0 THEN -1 ELSE IF n > 0 THEN 1 ELSE 0

\* A reference to the object at address n of the heap.
Ref(n) == [ref |-> n]

NoHeapCall == [op |-> "none", kept |-> TRUE]

\* No object is followed on the heap: the engine is used by value.
HeapIdle ==
    /\ heap = << >>
    /\ stateRef = Ref(0)
    /\ call = NoHeapCall

\* What a call of minimax returned: for which position, remaining depth and
\* side, null or a score, and from where in minimax (the time limit, the
\* quiescence search, the table, the missing moves, or the loop over the
\* moves).
MinimaxReturn(gs, depth, isMaximizing, isNull, score, via) ==
    [ gs |-> gs, depth |-> depth, isMaximizing |-> isMaximizing,
      isNull |-> isNull, score |-> score, via |-> via ]

NoReturn == MinimaxReturn(Null, 0, FALSE, FALSE, 0, "none")

\* No call of minimax is under way and none has returned; findBestMove has
\* not returned from an earlier call.
NoMinimax == [stack |-> << >>, returned |-> NoReturn, calls |-> << >>]

\* The added components are not used.

Opponent(color) == IF color = WHITE THEN BLACK ELSE WHITE

----------------------------------------------------------------------------
(* Construction                                                            *)

createPiece(id, type, color, position) ==
    [id |-> id, type |-> type, color |-> color,
     position |-> position, hasMoved |-> FALSE]

BackRankTypes == << ROOK, KNIGHT, BISHOP, QUEEN, KING, BISHOP, KNIGHT, ROOK >>

WhiteBackRankIds == << "r1", "n1", "b1", "q1", "k1", "b2", "n2", "r2" >>

BlackBackRankIds == << "R1", "N1", "B1", "Q1", "K1", "B2", "N2", "R2" >>

WhitePawnIds == << "p1", "p2", "p3", "p4", "p5", "p6", "p7", "p8" >>

BlackPawnIds == << "P1", "P2", "P3", "P4", "P5", "P6", "P7", "P8" >>

createInitialBoard ==
    [py \in Coord |->
        [px \in Coord |->
            CASE py = 7 -> createPiece(WhiteBackRankIds[px + 1], BackRankTypes[px + 1], WHITE, Pos(px, 7))
              [] py = 6 -> createPiece(WhitePawnIds[px + 1], PAWN, WHITE, Pos(px, 6))
              [] py = 0 -> createPiece(BlackBackRankIds[px + 1], BackRankTypes[px + 1], BLACK, Pos(px, 0))
              [] py = 1 -> createPiece(BlackPawnIds[px + 1], PAWN, BLACK, Pos(px, 1))
              [] OTHER -> Null]]

createInitialState(gameId, whitePlayer, blackPlayer) ==
    [id |-> gameId,
     board |-> createInitialBoard,
     currentPlayer |-> WHITE,
     players |-> [white |-> whitePlayer, black |-> blackPlayer],
     moves |-> << >>,
     isGameOver |-> FALSE,
     winner |-> Undefined,
     isCheck |-> FALSE,
     isCheckmate |-> FALSE,
     isStalemate |-> FALSE,
     castlingRights |-> [whiteKingSide |-> TRUE, whiteQueenSide |-> TRUE,
                         blackKingSide |-> TRUE, blackQueenSide |-> TRUE]]

----------------------------------------------------------------------------
(* Piece movement rules                                                    *)

isPositionOnBoard(position) ==
    /\ position.x >= 0 /\ position.x < 8
    /\ position.y >= 0 /\ position.y < 8

\* The squares strictly between from and to are empty.  The source walks
\* from `from` in steps of (sign dx, sign dy) until it stands on `to`; its
\* callers only pass squares on a common rank, file or diagonal.
isPathClear(gs, from, to) ==
    LET dx == Sign(to.x - from.x)
        dy == Sign(to.y - from.y)
        n  == IF Abs(to.x - from.x) > Abs(to.y - from.y)
              THEN Abs(to.x - from.x) ELSE Abs(to.y - from.y)
    IN  \A k \in 1..(n - 1) : gs.board[from.y + k * dy][from.x + k * dx] = Null

isValidPawnMove_NoDoublePush(gs, piece, from, to, dx, dy) ==
    LET direction == IF piece.color = WHITE THEN -1 ELSE 1
        targetPiece == gs.board[to.y][to.x]
    IN  \/ /\ dx = 0
           /\ dy = direction
           /\ targetPiece = Null
        \/ /\ Abs(dx) = 1
           /\ dy = direction
           /\ targetPiece # Null
           /\ targetPiece.color # piece.color

isValidPawnMove_DiagonalOntoEmpty(gs, piece, from, to, dx, dy) ==
    LET direction == IF piece.color = WHITE THEN -1 ELSE 1
        startRow == IF piece.color = WHITE THEN 6 ELSE 1
        targetPiece == gs.board[to.y][to.x]
    IN  \/ /\ dx = 0
           /\ \/ dy = direction /\ targetPiece = Null
              \/ /\ dy = 2 * direction
                 /\ from.y = startRow
                 /\ targetPiece = Null
                 /\ gs.board[from.y + direction][from.x] = Null
        \/ /\ Abs(dx) = 1
           /\ dy = direction
           /\ (targetPiece = Null \/ targetPiece.color # piece.color)

isValidPawnMove(gs, piece, from, to, dx, dy) ==
    LET direction == IF piece.color = WHITE THEN -1 ELSE 1
        startRow == IF piece.color = WHITE THEN 6 ELSE 1
        targetPiece == gs.board[to.y][to.x]
    IN  \/ /\ dx = 0
           /\ \/ dy = direction /\ targetPiece = Null
              \/ /\ dy = 2 * direction
                 /\ from.y = startRow
                 /\ targetPiece = Null
                 /\ gs.board[from.y + direction][from.x] = Null
        \/ /\ Abs(dx) = 1
           /\ dy = direction
           /\ targetPiece # Null
           /\ targetPiece.color # piece.color

isValidRookMove(gs, from, to, dx, dy) ==
    IF dx # 0 /\ dy # 0 THEN FALSE ELSE isPathClear(gs, from, to)

isValidBishopMove(gs, from, to, dx, dy) ==
    IF Abs(dx) # Abs(dy) THEN FALSE ELSE isPathClear(gs, from, to)

isValidQueenMove(gs, from, to, dx, dy) ==
    LET isRookMove == dx = 0 \/ dy = 0
        isBishopMove == Abs(dx) = Abs(dy)
    IN  IF ~isRookMove /\ ~isBishopMove THEN FALSE ELSE isPathClear(gs, from, to)

isValidKnightMove(dx, dy) ==
    \/ Abs(dx) = 2 /\ Abs(dy) = 1
    \/ Abs(dx) = 1 /\ Abs(dy) = 2

\* The first king of the colour in row-major scan order, or Null.
findKing(gs, color) ==
    LET kings == { p \in Squares :
                     /\ gs.board[p.y][p.x] # Null
                     /\ gs.board[p.y][p.x].type = KING
                     /\ gs.board[p.y][p.x].color = color }
    IN  IF kings = {} THEN Null
        ELSE CHOOSE p \in kings :
                \A q \in kings : p.y < q.y \/ (p.y = q.y /\ p.x <= q.x)

RECURSIVE isKingInCheck(_, _)

\* canCastle testing only the square the king lands on, not the one it
\* crosses.
canCastle_LandingOnly(gs, king, from, to) ==
    LET isKingSide == to.x > from.x
        isWhite == king.color = WHITE
        rookX == IF isKingSide THEN 7 ELSE 0
        rookY == IF isWhite THEN 7 ELSE 0
        rook == gs.board[rookY][rookX]
        startX == IF from.x < rookX THEN from.x ELSE rookX
        endX == IF from.x > rookX THEN from.x ELSE rookX
        kingPath == IF isKingSide THEN { from.x + 2 } ELSE { from.x - 2 }
        testState(kx) ==
            [gs EXCEPT !.board =
                [gs.board EXCEPT ![from.y] =
                    [[gs.board[from.y] EXCEPT ![from.x] = Null]
                        EXCEPT ![kx] = [king EXCEPT !.position = Pos(kx, from.y)]]]]
    IN  /\ ~king.hasMoved
        /\ ~isKingInCheck(gs, king.color)
        /\ IF isWhite
           THEN /\ isKingSide => gs.castlingRights.whiteKingSide
                /\ ~isKingSide => gs.castlingRights.whiteQueenSide
           ELSE /\ isKingSide => gs.castlingRights.blackKingSide
                /\ ~isKingSide => gs.castlingRights.blackQueenSide
        /\ rook # Null
        /\ rook.color = king.color
        /\ rook.type = ROOK
        /\ ~rook.hasMoved
        /\ \A bx \in (startX + 1)..(endX - 1) : gs.board[from.y][bx] = Null
        /\ \A kx \in kingPath : ~isKingInCheck(testState(kx), king.color)

canCastle(gs, king, from, to) ==
    LET isKingSide == to.x > from.x
        isWhite == king.color = WHITE
        rookX == IF isKingSide THEN 7 ELSE 0
        rookY == IF isWhite THEN 7 ELSE 0
        rook == gs.board[rookY][rookX]
        startX == IF from.x < rookX THEN from.x ELSE rookX
        endX == IF from.x > rookX THEN from.x ELSE rookX
        kingPath == IF isKingSide THEN { from.x + 1, from.x + 2 }
                                  ELSE { from.x - 1, from.x - 2 }
        testState(kx) ==
            [gs EXCEPT !.board =
                [gs.board EXCEPT ![from.y] =
                    [[gs.board[from.y] EXCEPT ![from.x] = Null]
                        EXCEPT ![kx] = [king EXCEPT !.position = Pos(kx, from.y)]]]]
    IN  /\ ~king.hasMoved
        /\ ~isKingInCheck(gs, king.color)
        /\ IF isWhite
           THEN /\ isKingSide => gs.castlingRights.whiteKingSide
                /\ ~isKingSide => gs.castlingRights.whiteQueenSide
           ELSE /\ isKingSide => gs.castlingRights.blackKingSide
                /\ ~isKingSide => gs.castlingRights.blackQueenSide
        /\ rook # Null
        /\ rook.color = king.color
        /\ rook.type = ROOK
        /\ ~rook.hasMoved
        /\ \A bx \in (startX + 1)..(endX - 1) : gs.board[from.y][bx] = Null
        /\ \A kx \in kingPath : ~isKingInCheck(testState(kx), king.color)

isValidKingMove(gs, piece, from, to, dx, dy) ==
    IF Abs(dx) <= 1 /\ Abs(dy) <= 1 THEN TRUE
    ELSE IF Abs(dx) = 2 /\ dy = 0 THEN canCastle(gs, piece, from, to)
    ELSE FALSE

isValidPieceMove(gs, piece, from, to) ==
    LET dx == to.x - from.x
        dy == to.y - from.y
    IN  CASE piece.type = PAWN -> isValidPawnMove(gs, piece, from, to, dx, dy)
          [] piece.type = ROOK -> isValidRookMove(gs, from, to, dx, dy)
          [] piece.type = BISHOP -> isValidBishopMove(gs, from, to, dx, dy)
          [] piece.type = QUEEN -> isValidQueenMove(gs, from, to, dx, dy)
          [] piece.type = KING -> isValidKingMove(gs, piece, from, to, dx, dy)
          [] piece.type = KNIGHT -> isValidKnightMove(dx, dy)
          [] OTHER -> FALSE

isKingInCheck(gs, color) ==
    LET kingPosition == findKing(gs, color)
        opponentColor == Opponent(color)
    IN  IF kingPosition = Null THEN FALSE
        ELSE \E p \in Squares :
                /\ gs.board[p.y][p.x] # Null
                /\ gs.board[p.y][p.x].color = opponentColor
                /\ isValidPieceMove(gs, gs.board[p.y][p.x], p, kingPosition)

----------------------------------------------------------------------------
(* Move execution                                                          *)

\* updateCastlingRights with the two corners of the rook confused.
updateCastlingRights_SidesSwapped(currentRights, piece, from) ==
    LET afterKing ==
            IF piece.type = KING
            THEN IF piece.color = WHITE
                 THEN [currentRights EXCEPT !.whiteKingSide = FALSE, !.whiteQueenSide = FALSE]
                 ELSE [currentRights EXCEPT !.blackKingSide = FALSE, !.blackQueenSide = FALSE]
            ELSE currentRights
    IN  IF piece.type = ROOK
        THEN IF piece.color = WHITE
             THEN [afterKing EXCEPT
                     !.whiteQueenSide = IF from.x = 7 /\ from.y = 7 THEN FALSE ELSE @,
                     !.whiteKingSide = IF from.x = 0 /\ from.y = 7 THEN FALSE ELSE @]
             ELSE [afterKing EXCEPT
                     !.blackQueenSide = IF from.x = 7 /\ from.y = 0 THEN FALSE ELSE @,
                     !.blackKingSide = IF from.x = 0 /\ from.y = 0 THEN FALSE ELSE @]
        ELSE afterKing

\* updateCastlingRights assigning, on a rook move, whether the rook stayed
\* off the corner instead of only clearing the right.
updateCastlingRights_Assigns(currentRights, piece, from) ==
    LET afterKing ==
            IF piece.type = KING
            THEN IF piece.color = WHITE
                 THEN [currentRights EXCEPT !.whiteKingSide = FALSE, !.whiteQueenSide = FALSE]
                 ELSE [currentRights EXCEPT !.blackKingSide = FALSE, !.blackQueenSide = FALSE]
            ELSE currentRights
    IN  IF piece.type = ROOK
        THEN IF piece.color = WHITE
             THEN [afterKing EXCEPT
                     !.whiteQueenSide = ~(from.x = 0 /\ from.y = 7),
                     !.whiteKingSide = ~(from.x = 7 /\ from.y = 7)]
             ELSE [afterKing EXCEPT
                     !.blackQueenSide = ~(from.x = 0 /\ from.y = 0),
                     !.blackKingSide = ~(from.x = 7 /\ from.y = 0)]
        ELSE afterKing

updateCastlingRights(currentRights, piece, from) ==
    LET afterKing ==
            IF piece.type = KING
            THEN IF piece.color = WHITE
                 THEN [currentRights EXCEPT !.whiteKingSide = FALSE, !.whiteQueenSide = FALSE]
                 ELSE [currentRights EXCEPT !.blackKingSide = FALSE, !.blackQueenSide = FALSE]
            ELSE currentRights
    IN  IF piece.type = ROOK
        THEN IF piece.color = WHITE
             THEN [afterKing EXCEPT
                     !.whiteQueenSide = IF from.x = 0 /\ from.y = 7 THEN FALSE ELSE @,
                     !.whiteKingSide = IF from.x = 7 /\ from.y = 7 THEN FALSE ELSE @]
             ELSE [afterKing EXCEPT
                     !.blackQueenSide = IF from.x = 0 /\ from.y = 0 THEN FALSE ELSE @,
                     !.blackKingSide = IF from.x = 7 /\ from.y = 0 THEN FALSE ELSE @]
        ELSE afterKing

\* MovedBoard leaving the piece on its origin square as well.
MovedBoard_KeepsOrigin(board, piece, from, to) ==
    LET promotionRank == IF piece.color = WHITE THEN 0 ELSE 7
        moved == [piece EXCEPT !.position = to, !.hasMoved = TRUE]
        placed == IF piece.type = PAWN /\ to.y = promotionRank
                  THEN [moved EXCEPT !.type = QUEEN]
                  ELSE moved
        b1 == [board EXCEPT ![to.y][to.x] = placed]
        b2 == b1
        isKingSide == to.x > from.x
        rookFromX == IF isKingSide THEN 7 ELSE 0
        rookToX == IF isKingSide THEN 5 ELSE 3
        rookY == from.y
        rook == b2[rookY][rookFromX]
    IN  IF piece.type = KING /\ Abs(to.x - from.x) = 2 /\ rook # Null
        THEN [[b2 EXCEPT ![rookY][rookToX] =
                    [rook EXCEPT !.position = Pos(rookToX, rookY), !.hasMoved = TRUE]]
                 EXCEPT ![rookY][rookFromX] = Null]
        ELSE b2

\* MovedBoard leaving the castling rook on its corner as well.
MovedBoard_RookStays(board, piece, from, to) ==
    LET promotionRank == IF piece.color = WHITE THEN 0 ELSE 7
        moved == [piece EXCEPT !.position = to, !.hasMoved = TRUE]
        placed == IF piece.type = PAWN /\ to.y = promotionRank
                  THEN [moved EXCEPT !.type = QUEEN]
                  ELSE moved
        b1 == [board EXCEPT ![to.y][to.x] = placed]
        b2 == [b1 EXCEPT ![from.y][from.x] = Null]
        isKingSide == to.x > from.x
        rookFromX == IF isKingSide THEN 7 ELSE 0
        rookToX == IF isKingSide THEN 5 ELSE 3
        rookY == from.y
        rook == b2[rookY][rookFromX]
    IN  IF piece.type = KING /\ Abs(to.x - from.x) = 2 /\ rook # Null
        THEN [b2 EXCEPT ![rookY][rookToX] =
                    [rook EXCEPT !.position = Pos(rookToX, rookY), !.hasMoved = TRUE]]
        ELSE b2

\* MovedBoard not setting hasMoved on the piece that moved.
MovedBoard_HasMovedUnset(board, piece, from, to) ==
    LET promotionRank == IF piece.color = WHITE THEN 0 ELSE 7
        moved == [piece EXCEPT !.position = to]
        placed == IF piece.type = PAWN /\ to.y = promotionRank
                  THEN [moved EXCEPT !.type = QUEEN]
                  ELSE moved
        b1 == [board EXCEPT ![to.y][to.x] = placed]
        b2 == [b1 EXCEPT ![from.y][from.x] = Null]
        isKingSide == to.x > from.x
        rookFromX == IF isKingSide THEN 7 ELSE 0
        rookToX == IF isKingSide THEN 5 ELSE 3
        rookY == from.y
        rook == b2[rookY][rookFromX]
    IN  IF piece.type = KING /\ Abs(to.x - from.x) = 2 /\ rook # Null
        THEN [[b2 EXCEPT ![rookY][rookToX] =
                    [rook EXCEPT !.position = Pos(rookToX, rookY), !.hasMoved = TRUE]]
                 EXCEPT ![rookY][rookFromX] = Null]
        ELSE b2

\* The steps of MovedBoard with the castling rook put on its new square as
\* it is, its position and hasMoved not written.
MovedBoard_RookAsItWas(board, piece, from, to) ==
    LET promotionRank == IF piece.color = WHITE THEN 0 ELSE 7
        moved == [piece EXCEPT !.position = to, !.hasMoved = TRUE]
        placed == IF piece.type = PAWN /\ to.y = promotionRank
                  THEN [moved EXCEPT !.type = QUEEN]
                  ELSE moved
        b1 == [board EXCEPT ![to.y][to.x] = placed]
        b2 == [b1 EXCEPT ![from.y][from.x] = Null]
        isKingSide == to.x > from.x
        rookFromX == IF isKingSide THEN 7 ELSE 0
        rookToX == IF isKingSide THEN 5 ELSE 3
        rookY == from.y
        rook == b2[rookY][rookFromX]
    IN  IF piece.type = KING /\ Abs(to.x - from.x) = 2 /\ rook # Null
        THEN [[b2 EXCEPT ![rookY][rookToX] = rook]
                 EXCEPT ![rookY][rookFromX] = Null]
        ELSE b2

\* The board after the piece on `from` went to `to`: the piece is copied
\* with its new position and hasMoved set, a pawn on its last rank becomes
\* a queen, and a king that moved two files takes the corner rook along.
\* makeMoveBasic and makeMove each carry their own copy of these steps.
MovedBoard_NoPromotion(board, piece, from, to) ==
    LET moved == [piece EXCEPT !.position = to, !.hasMoved = TRUE]
        b1 == [board EXCEPT ![to.y][to.x] = moved]
        b2 == [b1 EXCEPT ![from.y][from.x] = Null]
        isKingSide == to.x > from.x
        rookFromX == IF isKingSide THEN 7 ELSE 0
        rookToX == IF isKingSide THEN 5 ELSE 3
        rookY == from.y
        rook == b2[rookY][rookFromX]
    IN  IF piece.type = KING /\ Abs(to.x - from.x) = 2 /\ rook # Null
        THEN [[b2 EXCEPT ![rookY][rookToX] =
                    [rook EXCEPT !.position = Pos(rookToX, rookY), !.hasMoved = TRUE]]
                 EXCEPT ![rookY][rookFromX] = Null]
        ELSE b2

MovedBoard(board, piece, from, to) ==
    LET promotionRank == IF piece.color = WHITE THEN 0 ELSE 7
        moved == [piece EXCEPT !.position = to, !.hasMoved = TRUE]
        placed == IF piece.type = PAWN /\ to.y = promotionRank
                  THEN [moved EXCEPT !.type = QUEEN]
                  ELSE moved
        b1 == [board EXCEPT ![to.y][to.x] = placed]
        b2 == [b1 EXCEPT ![from.y][from.x] = Null]
        isKingSide == to.x > from.x
        rookFromX == IF isKingSide THEN 7 ELSE 0
        rookToX == IF isKingSide THEN 5 ELSE 3
        rookY == from.y
        rook == b2[rookY][rookFromX]
    IN  IF piece.type = KING /\ Abs(to.x - from.x) = 2 /\ rook # Null
        THEN [[b2 EXCEPT ![rookY][rookToX] =
                    [rook EXCEPT !.position = Pos(rookToX, rookY), !.hasMoved = TRUE]]
                 EXCEPT ![rookY][rookFromX] = Null]
        ELSE b2

makeMoveBasic(gs, from, to) ==
    LET piece == gs.board[from.y][from.x]
    IN  IF piece = Null THEN gs
        ELSE [gs EXCEPT
                !.board = MovedBoard(gs.board, piece, from, to),
                !.currentPlayer = Opponent(piece.color),
                !.castlingRights = updateCastlingRights(gs.castlingRights, piece, from)]

\* isValidMove without the test that the mover's king is left safe.
isValidMove_NoKingSafety(gs, from, to) ==
    LET piece == gs.board[from.y][from.x]
        targetPiece == gs.board[to.y][to.x]
    IN  /\ piece # Null
        /\ piece.color = gs.currentPlayer
        /\ isPositionOnBoard(to)
        /\ ~(targetPiece # Null /\ targetPiece.color = piece.color)
        /\ isValidPieceMove(gs, piece, from, to)

isValidMove(gs, from, to) ==
    LET piece == gs.board[from.y][from.x]
        targetPiece == gs.board[to.y][to.x]
    IN  /\ piece # Null
        /\ piece.color = gs.currentPlayer
        /\ isPositionOnBoard(to)
        /\ ~(targetPiece # Null /\ targetPiece.color = piece.color)
        /\ isValidPieceMove(gs, piece, from, to)
        /\ ~isKingInCheck(makeMoveBasic(gs, from, to), piece.color)

getValidMoves(gs, position) ==
    { to \in Squares : isValidMove(gs, position, to) }

\* color is Undefined when the caller leaves the argument out.
getAllPossibleMoves(gs, color) ==
    LET playerColor == IF color = Undefined THEN gs.currentPlayer ELSE color
        own == { p \in Squares :
                    /\ gs.board[p.y][p.x] # Null
                    /\ gs.board[p.y][p.x].color = playerColor }
    IN  UNION { { [from |-> p, to |-> t, piece |-> gs.board[p.y][p.x]] :
                    t \in getValidMoves(gs, p) } : p \in own }

\* Some piece of the colour has a valid move (the scan shared by
\* isCheckmate and isStalemate).
HasValidMove(gs, color) ==
    \E p \in Squares :
        /\ gs.board[p.y][p.x] # Null
        /\ gs.board[p.y][p.x].color = color
        /\ getValidMoves(gs, p) # {}

\* isCheckmate without the test that the king is in check.
isCheckmate_NoCheckTest(gs, color) ==
    ~HasValidMove(gs, color)

isCheckmate(gs, color) ==
    IF ~isKingInCheck(gs, color) THEN FALSE ELSE ~HasValidMove(gs, color)

\* isStalemate without the test that the king is not in check.
isStalemate_NoCheckTest(gs, color) ==
    ~HasValidMove(gs, color)

isStalemate(gs, color) ==
    IF isKingInCheck(gs, color) THEN FALSE ELSE ~HasValidMove(gs, color)

\* The move record.  Its timestamp (the wall clock) is left out.
MoveRecord(gs, piece, capturedPiece, from, to) ==
    [from |-> from,
     to |-> to,
     piece |-> piece,
     capturedPiece |-> capturedPiece,
     promotedTo |-> IF piece.type = PAWN
                       /\ to.y = (IF piece.color = WHITE THEN 0 ELSE 7)
                    THEN QUEEN ELSE Undefined,
     isCastling |-> piece.type = KING /\ Abs(to.x - from.x) = 2,
     player |-> gs.players[piece.color]]

\* The flags computed for the colour that moved instead of its opponent.
GameEndingConditions_ForMover(newState, piece) ==
    LET check == isKingInCheck(newState, piece.color)
        checkmate == isCheckmate(newState, piece.color)
        stalemate == isStalemate(newState, piece.color)
    IN  [newState EXCEPT
            !.isCheck = check,
            !.isCheckmate = checkmate,
            !.isStalemate = stalemate,
            !.isGameOver = checkmate \/ stalemate,
            !.winner = IF checkmate THEN piece.color ELSE @]

\* The end of makeMove: the flags of the new state, computed for the
\* opponent of the piece that moved.
GameEndingConditions(newState, piece) ==
    LET opponentColor == Opponent(piece.color)
        check == isKingInCheck(newState, opponentColor)
        checkmate == isCheckmate(newState, opponentColor)
        stalemate == isStalemate(newState, opponentColor)
    IN  [newState EXCEPT
            !.isCheck = check,
            !.isCheckmate = checkmate,
            !.isStalemate = stalemate,
            !.isGameOver = checkmate \/ stalemate,
            !.winner = IF checkmate THEN piece.color ELSE @]

makeMove(gs, from, to) ==
    LET piece == gs.board[from.y][from.x]
        capturedPiece == gs.board[to.y][to.x]
        newState ==
            [gs EXCEPT
                !.board = MovedBoard(gs.board, piece, from, to),
                !.currentPlayer = Opponent(piece.color),
                !.moves = Append(gs.moves, MoveRecord(gs, piece, capturedPiece, from, to)),
                !.castlingRights = updateCastlingRights(gs.castlingRights, piece, from)]
    IN  IF piece = Null THEN gs
        ELSE GameEndingConditions(newState, piece)

----------------------------------------------------------------------------
(* The objects around the engine as they are constructed: the              *)
(* ChessAIManager, the GameStateManager and the clipboard.                 *)

BEGINNER == "beginner"
INTERMEDIATE == "intermediate"
ADVANCED == "advanced"
EXPERT == "expert"
MASTER == "master"

AIDifficulty == { BEGINNER, INTERMEDIATE, ADVANCED, EXPERT, MASTER }

\* ChessAIManager.getDefaultConfig
getDefaultConfig(difficulty) ==
    CASE difficulty = BEGINNER ->
            [difficulty |-> difficulty, useOpeningBook |-> FALSE,
             useEndgameTablebase |-> FALSE, maxThinkTime |-> 1000, maxDepth |-> 2]
      [] difficulty = INTERMEDIATE ->
            [difficulty |-> difficulty, useOpeningBook |-> TRUE,
             useEndgameTablebase |-> FALSE, maxThinkTime |-> 3000, maxDepth |-> 3]
      [] difficulty = ADVANCED ->
            [difficulty |-> difficulty, useOpeningBook |-> TRUE,
             useEndgameTablebase |-> TRUE, maxThinkTime |-> 5000, maxDepth |-> 4]
      [] difficulty = EXPERT ->
            [difficulty |-> difficulty, useOpeningBook |-> TRUE,
             useEndgameTablebase |-> TRUE, maxThinkTime |-> 8000, maxDepth |-> 5]
      [] difficulty = MASTER ->
            [difficulty |-> difficulty, useOpeningBook |-> TRUE,
             useEndgameTablebase |-> TRUE, maxThinkTime |-> 15000, maxDepth |-> 6]

\* ChessAIManager.createEmptyStats
createEmptyStats ==
    [nodesSearched |-> 0, depth |-> 0, transpositionHits |-> 0,
     openingBookHits |-> 0]

\* A call findBestMove made, with what it was given and what it returned:
\* a move, or Null for null and for a call that threw.
ManagerCall(callee, maxDepth, timeLimit, threw, returned) ==
    [callee |-> callee, maxDepth |-> maxDepth, timeLimit |-> timeLimit,
     threw |-> threw, returned |-> returned]

\* What the promise of findBestMove settles with: the move, or the error
\* where it rejects, and the calls that were made on the way.
ManagerAnswer(calls, move, stats, rejected) ==
    [calls |-> calls, move |-> move, stats |-> stats, rejected |-> rejected]

NoAnswer == ManagerAnswer(<< >>, Null, createEmptyStats, FALSE)

\* new ChessAIManager(difficulty)
ChessAIManager(difficulty) ==
    [config |-> getDefaultConfig(difficulty),
     stats |-> createEmptyStats,
     answer |-> NoAnswer]

\* The last call of the manager and what it returned (FALSE where it
\* returns nothing).
GsmCalled(op, from, to, returned) ==
    [op |-> op, from |-> from, to |-> to, returned |-> returned]

\* new GameStateManager(gameId, whitePlayer, blackPlayer).  removed holds the
\* listeners removeEventListener was called with since they were last added.
GameStateManager(gameId, whitePlayer, blackPlayer) ==
    [gameState |-> createInitialState(gameId, whitePlayer, blackPlayer),
     eventListeners |-> << >>,
     delivered |-> << >>,
     removed |-> {},
     called |-> GsmCalled("constructor", Null, Null, FALSE)]

\* Nothing was copied yet.
NoClipboard == << "?" >>

\* playerSide before a side is chosen (null in the source).
NoSide == "null"

\* No move was made by the computer in the last step.
NoMove ==
    [by |-> "none", mover |-> NoSide, playerSide |-> NoSide,
     computedFor |-> << >>, appliedTo |-> << >>]

\* The SimpleChessApp component after its first render.  listener is the
\* handleStateChange the listener effect has registered on the manager, with
\* the playerSide and gameStarted of the render it was made in, which are
\* also those of the makeAIMove it starts; aiDeps are the dependencies the
\* effect of the AI moves last ran with.  promises are the calls of
\* ai.findBestMove not yet answered, timeouts the callbacks given to
\* setTimeout and not yet run, in the order they were set: all are set for
\* 500 ms, so they run in that order.  dirty: state was set and the render
\* for it is to come.  applied and lastMoveBy are kept for the properties:
\* the move the computer made in the last step, and who made the last move
\* of the game.
SimpleChessApp ==
    [gameResult |-> Null,
     playerSide |-> NoSide,
     gameStarted |-> FALSE,
     selectedSide |-> WHITE,
     aiIsThinking |-> FALSE,
     listener |-> [registered |-> FALSE, playerSide |-> NoSide,
                   gameStarted |-> FALSE],
     aiDeps |-> [moves |-> 0, gameStarted |-> FALSE, playerSide |-> NoSide,
                 gameResult |-> Null, aiIsThinking |-> FALSE],
     promises |-> << >>,
     timeouts |-> << >>,
     dirty |-> FALSE,
     applied |-> NoMove,
     lastMoveBy |-> "none"]

\* Nothing was emitted by the gateway in its last call.
NoEmit == [event |-> "none", message |-> "", gameId |-> ""]

\* The ChessGateway and its ChessGameService as they are constructed.  The
\* Maps are sequences of [key, value] pairs in insertion order.  called is
\* the last handler that ran, with what it emitted to its client.
ChessGateway ==
    [connectedClients |-> {},
     gameRooms |-> << >>,
     games |-> << >>,
     called |-> [op |-> "constructor", client |-> "", gameId |-> "",
                 emitted |-> NoEmit]]

\* The components added to the engine, the table and the search driver rest.
AppIdle ==
    /\ manager = ChessAIManager(INTERMEDIATE)
    /\ gsm = GameStateManager("game", "White", "Black")
    /\ clipboard = NoClipboard
    /\ session = SimpleChessApp
    /\ gateway = ChessGateway

ExtIdle == search = NoMinimax /\ AppIdle

----------------------------------------------------------------------------
(* Move generation and move ordering of the search (MoveGenerator,         *)
(* ChessAI).  Arrays are sequences.                                        *)

\* The elements of a finite set as a sequence, by increasing key; the keys
\* of two elements differ.
SortedBy(set, key(_)) ==
    [r \in 1..Cardinality(set) |->
        CHOOSE e \in set : Cardinality({ d \in set : key(d) < key(e) }) = r - 1]

\* The place of a move in the scans of getAllPossibleMoves and getValidMoves,
\* which visit the origins row by row and for each the destinations row by row.
ScanOrder(m) == (m.from.y * 8 + m.from.x) * 64 + m.to.y * 8 + m.to.x

\* The array ChessGameEngine.getAllPossibleMoves returns.
possibleMoves(gs, color) == SortedBy(getAllPossibleMoves(gs, color), ScanOrder)

promotionTypes == << QUEEN, ROOK, BISHOP, KNIGHT >>

\* The loop of getAllValidMoves pushing the promotion to a queen alone.
MovesFor_QueenOnly(gs, possibleMove) ==
    LET capturedPiece == gs.board[possibleMove.to.y][possibleMove.to.x]
        move == [from |-> possibleMove.from,
                 to |-> possibleMove.to,
                 piece |-> possibleMove.piece,
                 capturedPiece |-> capturedPiece,
                 player |-> gs.players[gs.currentPlayer],
                 promotedTo |-> Undefined,
                 isCastling |-> FALSE]
    IN  IF /\ possibleMove.piece.type = PAWN
           /\ \/ possibleMove.piece.color = WHITE /\ possibleMove.to.y = 0
              \/ possibleMove.piece.color = BLACK /\ possibleMove.to.y = 7
        THEN << [move EXCEPT !.promotedTo = QUEEN] >>
        ELSE IF /\ possibleMove.piece.type = KING
                /\ Abs(possibleMove.to.x - possibleMove.from.x) = 2
        THEN << [move EXCEPT !.isCastling = TRUE] >>
        ELSE << move >>

\* The records MoveGenerator.getAllValidMoves pushes for one possible move
\* (timestamp and notation left out).
MovesFor(gs, possibleMove) ==
    LET capturedPiece == gs.board[possibleMove.to.y][possibleMove.to.x]
        move == [from |-> possibleMove.from,
                 to |-> possibleMove.to,
                 piece |-> possibleMove.piece,
                 capturedPiece |-> capturedPiece,
                 player |-> gs.players[gs.currentPlayer],
                 promotedTo |-> Undefined,
                 isCastling |-> FALSE]
    IN  IF /\ possibleMove.piece.type = PAWN
           /\ \/ possibleMove.piece.color = WHITE /\ possibleMove.to.y = 0
              \/ possibleMove.piece.color = BLACK /\ possibleMove.to.y = 7
        THEN [k \in 1..4 |-> [move EXCEPT !.promotedTo = promotionTypes[k]]]
        ELSE IF /\ possibleMove.piece.type = KING
                /\ Abs(possibleMove.to.x - possibleMove.from.x) = 2
        THEN << [move EXCEPT !.isCastling = TRUE] >>
        ELSE << move >>

RECURSIVE Flatten(_, _)
\* The concatenation of the sequences seqs[i], seqs[i + 1], ...
Flatten(seqs, i) ==
    IF i > Len(seqs) THEN << >> ELSE seqs[i] \o Flatten(seqs, i + 1)

\* MoveGenerator.getAllValidMoves
getAllValidMoves(gs, color) ==
    LET possible == possibleMoves(gs, color)
    IN  Flatten([i \in 1..Len(possible) |-> MovesFor(gs, possible[i])], 1)

\* BoardEvaluator.getPieceValue
getPieceValue(type) ==
    CASE type = PAWN -> 100
      [] type = KNIGHT -> 320
      [] type = BISHOP -> 330
      [] type = ROOK -> 500
      [] type = QUEEN -> 900
      [] type = KING -> 20000

\* Twice the score of ChessAI.getMoveOrderingScore (the source measures the
\* distance from the centre in halves of a square).
getMoveOrderingScore(gs, move) ==
    LET capture == IF move.capturedPiece # Null
                   THEN 2 * ((getPieceValue(move.capturedPiece.type)
                                - getPieceValue(move.piece.type)) * 10 + 1000)
                   ELSE 0
        promotion == IF move.promotedTo # Undefined
                     THEN 2 * (getPieceValue(move.promotedTo) * 10 + 800)
                     ELSE 0
        castling == IF move.isCastling THEN 2 * 500 ELSE 0
        centerDistance == Abs(2 * move.to.x - 7) + Abs(2 * move.to.y - 7)
        development ==
            IF \/ move.piece.color = WHITE /\ move.from.y = 7 /\ move.to.y < 7
               \/ move.piece.color = BLACK /\ move.from.y = 0 /\ move.to.y > 0
            THEN 2 * 30 ELSE 0
    IN  capture + promotion + castling + (14 - centerDistance) * 5 + development

\* ChessAI.orderMoves: Array.prototype.sort, which is stable, with the
\* higher scores first.
orderMoves(gs, moves) ==
    LET score(i) == getMoveOrderingScore(gs, moves[i])
        before(i) == { j \in 1..Len(moves) :
                         score(j) > score(i) \/ (score(j) = score(i) /\ j < i) }
    IN  [r \in 1..Len(moves) |->
            moves[CHOOSE i \in 1..Len(moves) : Cardinality(before(i)) = r - 1]]

MAX_DEPTH == 8

\* Stands for Infinity: above every score.
Infinity == 1000000

\* ChessAI while findBestMove has not been called.
AIIdle ==
    [ pc |-> "idle", maxDepth |-> 0, timeLimit |-> 0, startTime |-> 0,
      moves |-> << >>, depth |-> 0, bestMove |-> Null, bestScore |-> 0,
      orderedMoves |-> << >>, index |-> 0, searchMove |-> Null,
      searchScore |-> 0, alpha |-> 0, beta |-> 0, result |-> Null,
      minimaxCalled |-> FALSE, ttAccessed |-> FALSE ]

----------------------------------------------------------------------------
(* The transposition table (TranspositionTable.ts).  The Map is kept as    *)
(* the sequence of its [key, value] pairs in insertion order, which is the *)
(* order forEach visits them in.                                           *)

\* The positions passed to the table: a few for calls of any kind, more for
\* filling the table.
MaxPositions == 3
MaxFill == 6

\* The largest maxSize a table is built with, the deepest search stored and
\* the last millisecond of the clock.
MaxMaxSize == 5
MaxDepth == 3
MaxTime == 1

Positions == 1..MaxPositions
FillPositions == 1..MaxFill

\* ZobristHash.hash: the key of a position.  The random numbers are drawn
\* once, when the class is loaded; what they decide is which positions share
\* a key.  Positions 1 and 2 do, and no others.
hash(position) == IF position = 2 THEN 1 ELSE position

\* Math.floor(n * 0.8) and Math.floor(n * 0.2) for a natural number n.
FloorOfEightTenths(n) == (n * 8) \div 10
FloorOfTwoTenths(n) == (n * 2) \div 10

\* new TranspositionTable(maxSize)
TranspositionTable(maxSize) ==
    [ table |-> << >>,
      maxSize |-> maxSize,
      cleanupThreshold |-> FloorOfEightTenths(maxSize) ]

\* Map.prototype.get: the value stored under key, Null if there is none.
MapGet(table, key) ==
    IF \E i \in 1..Len(table) : table[i].key = key
    THEN table[CHOOSE i \in 1..Len(table) : table[i].key = key].value
    ELSE Null

\* Map.prototype.set: replaces the value in place, or adds the pair last.
MapSet(table, key, value) ==
    IF \E i \in 1..Len(table) : table[i].key = key
    THEN [i \in 1..Len(table) |->
             IF table[i].key = key THEN [key |-> key, value |-> value]
             ELSE table[i]]
    ELSE Append(table, [key |-> key, value |-> value])

\* entries.sort of cleanup puts entry i before entry j: the older first,
\* of two of the same age the shallower, otherwise (the sort being stable)
\* the one inserted first.
SortsBefore(entries, i, j) ==
    \/ entries[i].value.timestamp < entries[j].value.timestamp
    \/ /\ entries[i].value.timestamp = entries[j].value.timestamp
       /\ \/ entries[i].value.depth < entries[j].value.depth
          \/ entries[i].value.depth = entries[j].value.depth /\ i < j

\* The pairs cleanup deletes: the first removeCount of the sorted entries.
Removed(entries) ==
    LET removeCount == FloorOfTwoTenths(Len(entries))
    IN  { i \in 1..Len(entries) :
            Cardinality({ j \in 1..Len(entries) : SortsBefore(entries, j, i) })
                < removeCount }

RECURSIVE Without(_, _, _)
\* The sequence entries from index i on, without the indices in gone.
Without(entries, gone, i) ==
    IF i > Len(entries) THEN << >>
    ELSE IF i \in gone THEN Without(entries, gone, i + 1)
    ELSE << entries[i] >> \o Without(entries, gone, i + 1)

cleanup(t) ==
    [t EXCEPT !.table = Without(t.table, Removed(t.table), 1)]

\* set once the key of the position has been computed.
setAt(t, key, depth, score, bestMove, nodeType) ==
    LET cleaned == IF Len(t.table) > t.cleanupThreshold THEN cleanup(t) ELSE t
        entry == [ depth |-> depth, score |-> score, bestMove |-> bestMove,
                   nodeType |-> nodeType, timestamp |-> now ]
        existing == MapGet(cleaned.table, key)
    IN  IF existing = Null \/ depth >= existing.depth
        THEN [cleaned EXCEPT !.table = MapSet(cleaned.table, key, entry)]
        ELSE cleaned

\* get once the key of the position has been computed.
getAt(t, key, depth) ==
    LET entry == MapGet(t.table, key)
    IN  IF entry = Null \/ entry.depth < depth THEN Null ELSE entry

set_AlwaysOverwrites(t, position, depth, score, bestMove, nodeType) ==
    LET key == hash(position)
        cleaned == IF Len(t.table) > t.cleanupThreshold THEN cleanup(t) ELSE t
        entry == [ depth |-> depth, score |-> score, bestMove |-> bestMove,
                   nodeType |-> nodeType, timestamp |-> now ]
    IN  [cleaned EXCEPT !.table = MapSet(cleaned.table, key, entry)]

set(t, position, depth, score, bestMove, nodeType) ==
    setAt(t, hash(position), depth, score, bestMove, nodeType)

get_AnyDepth(t, position, depth) ==
    MapGet(t.table, hash(position))

get(t, position, depth) == getAt(t, hash(position), depth)

clear(t) == [t EXCEPT !.table = << >>]

\* The depths a position is searched to while the table is filled: the two
\* positions that share a key to every depth and any number of times, the
\* others once, to depth 1.
FillDepths(position) == IF position <= 2 THEN 1..MaxDepth ELSE {1}

\* What a search of a position to a depth stores: the score it finds.
SearchScore(position, depth) == 10 * position + depth

\* No call of set or get has returned yet.
NoCall == [op |-> "none", position |-> 0, depth |-> 0, entry |-> Null]

\* The caller's default: the game has not begun.
NoGame == gameState = createInitialState("game", "White", "Black")

TTInit ==
    /\ NoGame
    /\ \E maxSize \in {1, MaxMaxSize} : tt = TranspositionTable(maxSize)
    /\ now = 0
    /\ seen = 0
    /\ ttReturned = NoCall
    /\ ai = AIIdle
    /\ HeapIdle
    /\ ExtIdle

\* set is called for a position; the positions are first passed in the order
\* of their numbers.
Set(position, depth) ==
    /\ position <= seen + 1
    /\ tt' = set(tt, position, depth, SearchScore(position, depth), Undefined, "exact")
    /\ seen' = IF position > seen THEN position ELSE seen
    /\ ttReturned' = [op |-> "set", position |-> position, depth |-> depth,
                      entry |-> Null]
    /\ UNCHANGED << gameState, heapVars, extVars, now, ai >>

Get(position, depth) ==
    /\ ttReturned' = [op |-> "get", position |-> position, depth |-> depth,
                      entry |-> get(tt, position, depth)]
    /\ UNCHANGED << gameState, heapVars, extVars, tt, now, seen, ai >>

Clear ==
    /\ Len(tt.table) > 0
    /\ tt' = clear(tt)
    /\ ttReturned' = NoCall
    /\ UNCHANGED << gameState, heapVars, extVars, now, seen, ai >>

\* A millisecond passes.
Tick ==
    /\ now < MaxTime
    /\ now' = now + 1
    /\ ttReturned' = NoCall
    /\ UNCHANGED << gameState, heapVars, extVars, tt, seen, ai >>

\* Calls of any kind about a few positions, within one millisecond.
TTNext ==
    \/ \E position \in Positions, depth \in 1..MaxDepth : Set(position, depth)
    \/ \E position \in Positions, depth \in 1..(MaxDepth + 2) : Get(position, depth)
    \/ Clear

\* The table is filled while time passes: results are stored for more
\* positions than the table keeps.
TTFillNext ==
    \/ \E position \in FillPositions :
          /\ position <= 2 \/ position = seen + 1
          /\ \E depth \in FillDepths(position) : Set(position, depth)
    \/ Tick

----------------------------------------------------------------------------
(* The table while the clock runs.  The comparator of cleanup reads        *)
(* Date.now() once for each of the two entries it is given, and the set    *)
(* above takes the two readings to be the same.  Here a millisecond may    *)
(* pass during the sort, between the two readings of one comparison.       *)

\* The largest depth stored while the clock runs.
MaxSortDepth == 2

\* The comparator cleanup passes to entries.sort, a and b being the values
\* of the two entries and first and second the two readings of the clock.
compareEntries(a, b, first, second) ==
    LET ageA == first - a.timestamp
        ageB == second - b.timestamp
    IN  IF ageA # ageB THEN ageB - ageA ELSE a.depth - b.depth

\* Some call of the comparator, made with both readings at the time
\* clock, puts entry i before entry j; where it returns 0 the sort, which
\* is stable, leaves the entries in their order.
ComparedBefore(entries, i, j, clock) ==
    LET order == compareEntries(entries[i].value, entries[j].value, clock, clock)
    IN  order < 0 \/ (order = 0 /\ i < j)

\* The call of the comparator during which the clock went from clock to
\* later puts entry i before entry j, whichever of the two it was given
\* first.
StraddledBefore(entries, i, j, clock, later) ==
    \/ compareEntries(entries[i].value, entries[j].value, clock, later) < 0
    \/ compareEntries(entries[j].value, entries[i].value, clock, later) > 0

\* The orders entries.sort may leave the entries in, as sequences of their
\* indices, while the clock goes from clock to later: every two neighbours
\* are in the order a call of the comparator gave them, and at most one of
\* these calls was made while the clock moved.
SortOrders(entries, clock, later) ==
    LET n == Len(entries)
        Straddled(order) ==
            { k \in 1..(n - 1) : ~ComparedBefore(entries, order[k], order[k + 1], clock) }
    IN  { order \in [1..n -> 1..n] :
            /\ \A k \in 1..n : \E l \in 1..n : order[l] = k
            /\ Cardinality(Straddled(order)) <= (IF later > clock THEN 1 ELSE 0)
            /\ \A k \in Straddled(order) :
                    StraddledBefore(entries, order[k], order[k + 1], clock, later) }

\* The indices cleanup deletes when the sort leaves the entries in the order.
RemovedInOrder(entries, order) ==
    { order[k] : k \in 1..FloorOfTwoTenths(Len(entries)) }

\* cleanup, the sort having left the entries in the order.
cleanupInOrder(t, order) ==
    [t EXCEPT !.table = Without(t.table, RemovedInOrder(t.table, order), 1)]

\* set, the call reading later from the clock for the timestamp of the
\* entry, after cleanup (where it ran) deleted the indices in gone.
setAtTime(t, key, depth, score, bestMove, nodeType, gone, later) ==
    LET cleaned == [t EXCEPT !.table = Without(t.table, gone, 1)]
        entry == [ depth |-> depth, score |-> score, bestMove |-> bestMove,
                   nodeType |-> nodeType, timestamp |-> later ]
        existing == MapGet(cleaned.table, key)
    IN  IF existing = Null \/ depth >= existing.depth
        THEN [cleaned EXCEPT !.table = MapSet(cleaned.table, key, entry)]
        ELSE cleaned

\* What a call of set deletes in its cleanup: nothing below the threshold.
Deleted(t, order) ==
    IF Len(t.table) > t.cleanupThreshold THEN RemovedInOrder(t.table, order) ELSE {}

\* set is called for a position and returns at the time later.
SetAsClockRuns(position, depth, later) ==
    /\ position <= seen + 1
    /\ later = now \/ Len(tt.table) > tt.cleanupThreshold
    /\ \E order \in SortOrders(tt.table, now, later) :
          /\ tt' = setAtTime(tt, hash(position), depth, SearchScore(position, depth),
                             Undefined, "exact", Deleted(tt, order), later)
          /\ ttReturned' = [op |-> "set", position |-> position, depth |-> depth,
                            entry |-> Null,
                            removed |-> { tt.table[i] : i \in Deleted(tt, order) }]
    /\ now' = later
    /\ seen' = IF position > seen THEN position ELSE seen
    /\ UNCHANGED << gameState, heapVars, extVars, ai >>

\* A table of MaxMaxSize entries, the clock at 0.
TTSortInit ==
    /\ NoGame
    /\ tt = TranspositionTable(MaxMaxSize)
    /\ now = 0
    /\ seen = 0
    /\ ttReturned = NoCall
    /\ ai = AIIdle
    /\ HeapIdle
    /\ ExtIdle

\* Results are stored while the clock runs: for the two positions that
\* share a key any number of times, for the others once.
TTSortNext ==
    \/ \E position \in FillPositions, depth \in 1..MaxSortDepth,
          later \in { t \in { now, now + 1 } : t <= MaxTime } :
            /\ position <= 2 \/ position = seen + 1
            /\ SetAsClockRuns(position, depth, later)
    \/ Tick

SpecTTSort == TTSortInit /\ [][TTSortNext]_vars

----------------------------------------------------------------------------
(* The games played.  A caller validates with isValidMove and then applies *)
(* the move with makeMove.  The moves tried are those of a set of recorded *)
(* games, each followed from the initial position, and after the last move *)
(* of a recorded game every valid move, up to MaxFree moves further.       *)

MaxFree == 1

\* f2f3 e7e5 g2g4 d8h4 (checkmate)
FoolsMateLine ==
    << <<5,6,5,5>>, <<4,1,4,3>>, <<6,6,6,4>>, <<3,0,7,4>> >>

\* e2e4 e7e5 g1f3 g8f6 f1c4 f8c5 e1g1 e8g8 (both sides castle king-side)
CastleKingSideLine ==
    << <<4,6,4,4>>, <<4,1,4,3>>, <<6,7,5,5>>, <<6,0,5,2>>, <<5,7,2,4>>,
       <<5,0,2,3>>, <<4,7,6,7>>, <<4,0,6,0>> >>

\* d2d4 d7d5 b1c3 b8c6 c1f4 c8f5 d1d2 d8d7 e1c1 e8c8 (both castle queen-side)
CastleQueenSideLine ==
    << <<3,6,3,4>>, <<3,1,3,3>>, <<1,7,2,5>>, <<1,0,2,2>>, <<2,7,5,4>>,
       <<2,0,5,3>>, <<3,7,3,6>>, <<3,0,3,1>>, <<4,7,2,7>>, <<4,0,2,0>> >>

\* e2e4 b7b6 f1b5 c8a6 b5a4 e7e6 g1f3 g8f6 (the bishop on a6 attacks f1)
CastleThroughAttackLine ==
    << <<4,6,4,4>>, <<1,1,1,2>>, <<5,7,1,3>>, <<2,0,0,2>>, <<1,3,0,4>>,
       <<4,1,4,2>>, <<6,7,5,5>>, <<6,0,5,2>> >>

\* e2e4 e7e5 g1f3 b8c6 f1c4 g8f6 d2d3 f8b4 (white is in check, f1 g1 empty)
CastleOutOfCheckLine ==
    << <<4,6,4,4>>, <<4,1,4,3>>, <<6,7,5,5>>, <<1,0,2,2>>, <<5,7,2,4>>,
       <<6,0,5,2>>, <<3,6,3,5>>, <<5,0,1,4>> >>

\* a2a4 b7b5 a4b5 a7a6 b5a6 c8b7 a6b7 b8c6 b7a8 (a pawn promotes on a8)
PromotionLine ==
    << <<0,6,0,4>>, <<1,1,1,3>>, <<0,4,1,3>>, <<0,1,0,2>>, <<1,3,0,2>>,
       <<2,0,1,1>>, <<0,2,1,1>>, <<1,0,2,2>>, <<1,1,0,0>> >>

\* e2e3 a7a5 d1h5 a8a6 h5a5 h7h5 h2h4 a6h6 a5c7 f7f6 c7d7 e8f7 d7b7 d8d3
\* b7b8 d3h7 b8c8 f7g6 c8e6 (stalemate)
StalemateLine ==
    << <<4,6,4,5>>, <<0,1,0,3>>, <<3,7,7,3>>, <<0,0,0,2>>, <<7,3,0,3>>,
       <<7,1,7,3>>, <<7,6,7,4>>, <<0,2,7,2>>, <<0,3,2,1>>, <<5,1,5,2>>,
       <<2,1,3,1>>, <<4,0,5,1>>, <<3,1,1,1>>, <<3,0,3,5>>, <<1,1,1,0>>,
       <<3,5,7,1>>, <<1,0,2,0>>, <<5,1,6,2>>, <<2,0,4,2>> >>

\* h2h3 a7a5 b2b4 a5b4 a2a3 b4a3 c1b2 a3b2 b1c3 b2a1 (a pawn promotes on a1)
BlackPromotionLine ==
    << <<7,6,7,5>>, <<0,1,0,3>>, <<1,6,1,4>>, <<0,3,1,4>>, <<0,6,0,5>>,
       <<1,4,0,5>>, <<2,7,1,6>>, <<0,5,1,6>>, <<1,7,2,5>>, <<1,6,0,7>> >>

\* e2e4 a7a6 e4e5 d7d5 (the pawn on d5 has just passed the pawn on e5)
EnPassantLine ==
    << <<4,6,4,4>>, <<0,1,0,2>>, <<4,4,4,3>>, <<3,1,3,3>> >>

\* e2e4 f7f6 d1h5 (black is in check and has the single reply g7g6)
SingleReplyLine ==
    << <<4,6,4,4>>, <<5,1,5,2>>, <<3,7,7,3>> >>

Upto(line, n) == SubSeq(line, 1, n)

\* The recorded games: the initial position itself, the games above, and
\* the two castling games stopped where a side is about to castle.
Lines ==
    { << >>, FoolsMateLine, CastleKingSideLine, CastleQueenSideLine,
      Upto(CastleKingSideLine, 6), Upto(CastleKingSideLine, 7),
      Upto(CastleQueenSideLine, 8), Upto(CastleQueenSideLine, 9),
      CastleThroughAttackLine, CastleOutOfCheckLine, PromotionLine,
      StalemateLine, BlackPromotionLine, EnPassantLine, SingleReplyLine }

\* The moves played so far, as <<from.x, from.y, to.x, to.y>>.
Played(moves) ==
    [i \in 1..Len(moves) |->
        << moves[i].from.x, moves[i].from.y, moves[i].to.x, moves[i].to.y >>]

IsPrefix(s, t) ==
    /\ Len(s) <= Len(t)
    /\ \A i \in 1..Len(s) : s[i] = t[i]

\* h is the beginning of a recorded game, or a recorded game followed by at
\* most MaxFree further moves.
InScope(h) ==
    \E line \in Lines :
        \/ IsPrefix(h, line)
        \/ IsPrefix(line, h) /\ Len(h) - Len(line) <= MaxFree

\* The table of ChessAI, as it is when the class is loaded.
TTIdle ==
    /\ tt = TranspositionTable(1000000)
    /\ now = 0
    /\ seen = 0
    /\ ttReturned = NoCall
    /\ ai = AIIdle
    /\ HeapIdle
    /\ ExtIdle

Init ==
    /\ gameState = createInitialState("game", "White", "Black")
    /\ TTIdle

MakeMove(from, to) ==
    /\ isValidMove(gameState, from, to)
    /\ InScope(Append(Played(gameState.moves), << from.x, from.y, to.x, to.y >>))
    /\ gameState' = makeMove(gameState, from, to)
    /\ UNCHANGED << ttVars, ai, heapVars, extVars >>

Next ==
    \E from \in Squares, to \in Squares : MakeMove(from, to)

Spec == Init /\ [][Next]_vars

\* The transposition table alone, under any calls.
SpecTT == TTInit /\ [][TTNext]_vars

\* The transposition table alone, being filled.
SpecTTFill == TTInit /\ [][TTFillNext]_vars

----------------------------------------------------------------------------
(* ChessAI.findBestMove, step by step.  Date.now() may have moved on        *)
(* between any two of its steps, and inside a call of minimax.  The search *)
(* below the root is not followed: minimax returns any score, or null once *)
(* the time limit has passed, and may have read the transposition table.   *)

Min(a, b) == IF a < b THEN a ELSE b
Max(a, b) == IF a > b THEN a ELSE b

\* Date.now() - ChessAI.startTime
Elapsed == now - ai.startTime

\* The scores minimax may return: of a quiet position for either side, or of
\* a mate found.
MinimaxScores == {-30, 30, 9999}

\* What a call minimax(gs, depth, ...) may return, the clock standing at
\* elapsed when it returns: a score, or null after the time limit; the table
\* is read when the position is searched further (depth > 0, game not over).
minimax(gs, depth, elapsed, timeLimit) ==
    LET searched == depth # 0 /\ ~gs.isGameOver
    IN  { [isNull |-> FALSE, score |-> s, tableRead |-> searched] :
            s \in MinimaxScores }
        \cup (IF elapsed > timeLimit
              THEN { [isNull |-> TRUE, score |-> 0, tableRead |-> r] :
                       r \in (IF searched THEN BOOLEAN ELSE {FALSE}) }
              ELSE {})

\* findBestMove without the return of the only move: it is searched like
\* any other.
FindBestMove_NoShortcut(maxDepth, timeLimit) ==
    /\ ai.pc = "idle"
    /\ LET moves == getAllValidMoves(gameState, gameState.currentPlayer)
           called == [AIIdle EXCEPT !.maxDepth = maxDepth, !.timeLimit = timeLimit,
                                    !.startTime = now, !.moves = moves]
       IN  ai' = IF Len(moves) = 0
                 THEN [called EXCEPT !.pc = "returned", !.result = Null]
                 ELSE [called EXCEPT
                          !.pc = "loop", !.depth = 1, !.bestMove = Null,
                          !.bestScore = IF gameState.currentPlayer = WHITE
                                        THEN -Infinity ELSE Infinity]
    /\ UNCHANGED << gameState, heapVars, extVars, ttVars >>

\* findBestMove is called: lines 28 to 38.
FindBestMove(maxDepth, timeLimit) ==
    /\ ai.pc = "idle"
    /\ LET moves == getAllValidMoves(gameState, gameState.currentPlayer)
           called == [AIIdle EXCEPT !.maxDepth = maxDepth, !.timeLimit = timeLimit,
                                    !.startTime = now, !.moves = moves]
       IN  ai' = IF Len(moves) = 0
                 THEN [called EXCEPT !.pc = "returned", !.result = Null]
                 ELSE IF Len(moves) = 1
                 THEN [called EXCEPT !.pc = "returned", !.result = moves[1]]
                 ELSE [called EXCEPT
                          !.pc = "loop", !.depth = 1, !.bestMove = Null,
                          !.bestScore = IF gameState.currentPlayer = WHITE
                                        THEN -Infinity ELSE Infinity]
    /\ UNCHANGED << gameState, heapVars, extVars, ttVars >>

\* The iterative deepening with no bound on its depth.
IterativeDeepening_Unbounded ==
    /\ ai.pc = "loop"
    /\ ai' = IF 10 * Elapsed > 9 * ai.timeLimit
             THEN [ai EXCEPT !.pc = "returned", !.result = ai.bestMove]
             ELSE [ai EXCEPT !.pc = "call"]
    /\ UNCHANGED << gameState, heapVars, extVars, ttVars >>

\* The head of the iterative deepening loop, and the return after it.
IterativeDeepening ==
    /\ ai.pc = "loop"
    /\ ai' = IF \/ ai.depth > Min(ai.maxDepth, MAX_DEPTH)
                \/ 10 * Elapsed > 9 * ai.timeLimit
             THEN [ai EXCEPT !.pc = "returned", !.result = ai.bestMove]
             ELSE [ai EXCEPT !.pc = "call"]
    /\ UNCHANGED << gameState, heapVars, extVars, ttVars >>

\* findBestMove goes on after searchWithTimeout has returned its best move
\* and score: lines 45 to 51.
SearchReturned(a) ==
    IF Abs(a.searchScore) > 9000
    THEN [a EXCEPT !.bestMove = a.searchMove, !.bestScore = a.searchScore,
                   !.pc = "returned", !.result = a.searchMove]
    ELSE [a EXCEPT !.bestMove = a.searchMove, !.bestScore = a.searchScore,
                   !.pc = "loop", !.depth = a.depth + 1]

\* searchWithTimeout is entered: lines 71 to 80.  When it returns null the
\* loop goes on with the next depth.
SearchWithTimeout ==
    /\ ai.pc = "call"
    /\ LET moves == getAllValidMoves(gameState, gameState.currentPlayer)
           orderedMoves == orderMoves(gameState, moves)
       IN  ai' = IF Elapsed > ai.timeLimit \/ Len(moves) = 0
                 THEN [ai EXCEPT !.pc = "loop", !.depth = ai.depth + 1]
                 ELSE [ai EXCEPT
                          !.pc = "search", !.orderedMoves = orderedMoves,
                          !.index = 1, !.searchMove = orderedMoves[1],
                          !.searchScore = -Infinity,
                          !.alpha = -Infinity, !.beta = Infinity]
    /\ UNCHANGED << gameState, heapVars, extVars, ttVars >>

\* The loop over the ordered moves ends, or is left at the time limit.
SearchBreak ==
    /\ ai.pc = "search"
    /\ ai.index > Len(ai.orderedMoves) \/ Elapsed > ai.timeLimit
    /\ ai' = SearchReturned(ai)
    /\ UNCHANGED << gameState, heapVars, extVars, ttVars >>

\* One move of the loop: lines 83 to 102.  The clock stands at later when
\* minimax returns.
SearchMove(later, returned) ==
    /\ ai.pc = "search"
    /\ ai.index <= Len(ai.orderedMoves)
    /\ ~(Elapsed > ai.timeLimit)
    /\ later >= now
    /\ LET move == ai.orderedMoves[ai.index]
           newGameState == makeMove(gameState, move.from, move.to)
           score == returned.score
           better == score > ai.searchScore
           alpha == IF better THEN Max(ai.alpha, score) ELSE ai.alpha
           searched == [ai EXCEPT
                           !.minimaxCalled = TRUE,
                           !.ttAccessed = @ \/ returned.tableRead]
           scored == [searched EXCEPT
                         !.searchScore = IF better THEN score ELSE @,
                         !.searchMove = IF better THEN move ELSE @,
                         !.alpha = alpha]
       IN  /\ returned \in minimax(newGameState, ai.depth - 1,
                                   later - ai.startTime, ai.timeLimit)
           /\ ai' = IF returned.isNull THEN SearchReturned(searched)
                    ELSE IF ai.beta <= alpha THEN SearchReturned(scored)
                    ELSE [scored EXCEPT !.index = ai.index + 1]
    /\ now' = later
    /\ UNCHANGED << gameState, heapVars, extVars, tt, seen, ttReturned >>

\* f2f3 e7e5 e1f2 d8h4 (white is in check and has two replies)
TwoRepliesLine ==
    << <<5,6,5,5>>, <<4,1,4,3>>, <<4,7,5,6>>, <<3,0,7,4>> >>

RECURSIVE PlayedOut(_, _, _)
\* The state after the moves line[i], line[i + 1], ... made from gs.
PlayedOut(gs, line, i) ==
    IF i > Len(line) THEN gs
    ELSE PlayedOut(makeMove(gs, Pos(line[i][1], line[i][2]),
                            Pos(line[i][3], line[i][4])), line, i + 1)

\* The positions findBestMove is asked about: with no legal move (a mate
\* and a stalemate), with one and with two.
AIPositions ==
    { PlayedOut(createInitialState("game", "White", "Black"), line, 1) :
        line \in { FoolsMateLine, StalemateLine, SingleReplyLine,
                   TwoRepliesLine } }

AIInit ==
    /\ gameState \in AIPositions
    /\ tt = TranspositionTable(1000000)
    /\ now = 0
    /\ seen = 0
    /\ ttReturned = NoCall
    /\ ai = AIIdle
    /\ HeapIdle
    /\ ExtIdle

AINext ==
    \/ \E maxDepth \in 1..MaxDepth, timeLimit \in 0..MaxTime :
          FindBestMove(maxDepth, timeLimit)
    \/ IterativeDeepening
    \/ SearchWithTimeout
    \/ SearchBreak
    \/ \E later \in now..MaxTime, returned \in
            [isNull : BOOLEAN, score : MinimaxScores \cup {0}, tableRead : BOOLEAN] :
          SearchMove(later, returned)
    \/ Tick

SpecAI == AIInit /\ [][AINext]_vars

----------------------------------------------------------------------------
(* The rules engine on the heap.  A GameState, its board (an array of row  *)
(* arrays), the pieces on the board, its castlingRights and its moves      *)
(* array are objects: each is held at an address of the heap and named by  *)
(* a Ref.  A Position, a players record and a move record are never        *)
(* written to by the engine and are kept as values, and so are the arrays  *)
(* getValidMoves and getAllPossibleMoves build and return.  An operation   *)
(* takes the heap and gives the heap it leaves and what it returns.  The   *)
(* objects allocated by a call that returned a boolean or an array of      *)
(* positions and wrote to no older object are unreachable afterwards and   *)
(* are dropped.  The calls of                                              *)
(* canCastle made from isKingInCheck (for a king two files from the other  *)
(* king) are not followed on the heap.                                     *)

At(h, r) == h[r.ref]

\* A new object; its address is the next free one.
Alloc(h, object) == [heap |-> Append(h, object), ret |-> Ref(Len(h) + 1)]

\* board[position.y][position.x]
CellAt(h, board, position) == At(h, At(h, board)[position.y])[position.x]

\* board[position.y][position.x] = value
StoreCell(h, board, position, value) ==
    [h EXCEPT ![At(h, board)[position.y].ref][position.x] = value]

\* The piece record a square of a board refers to.
PieceAt(h, cell) == IF cell = Null THEN Null ELSE At(h, cell)

\* The heap a call leaves to a caller that drops what the call returned: the
\* objects the call allocated are gone, unless the call wrote to an older
\* object, which may then refer to them.
Drop(h, left) == IF SubSeq(left, 1, Len(h)) = h THEN h ELSE left

\* The GameState an address stands for: its board squares with their piece
\* records, castling rights, side to move, move list and flags.
Deref(h, gameStateRef) ==
    LET object == At(h, gameStateRef)
        rows == At(h, object.board)
        moves == At(h, object.moves)
    IN  [object EXCEPT
            !.board = [py \in Coord |->
                          [px \in Coord |-> PieceAt(h, At(h, rows[py])[px])]],
            !.moves = [i \in 1..Len(moves) |->
                          [moves[i] EXCEPT
                              !.piece = At(h, @),
                              !.capturedPiece = PieceAt(h, @)]],
            !.castlingRights = At(h, object.castlingRights)]

\* createInitialState: the 32 pieces, the 8 rows, the board, the castling
\* rights, the moves array and the state, in this order.
createInitialStateOnHeap ==
    LET gs == createInitialState("game", "White", "Black")
        home == << 0, 1, 6, 7 >>
        pieces == [i \in 1..32 |-> gs.board[home[((i - 1) \div 8) + 1]][(i - 1) % 8]]
        address(px, py) ==
            IF gs.board[py][px] = Null THEN Null
            ELSE Ref((IF py <= 1 THEN py ELSE py - 4) * 8 + px + 1)
        rows == [i \in 1..8 |-> [px \in Coord |-> address(px, i - 1)]]
        board == [py \in Coord |-> Ref(33 + py)]
    IN  pieces \o rows \o
        << board, gs.castlingRights, gs.moves,
           [gs EXCEPT !.board = Ref(41), !.castlingRights = Ref(42),
                      !.moves = Ref(43)] >>

\* [...gameState.board]: a new outer array over the rows of the input.
copyBoard_SharedRows(h, board) ==
    Alloc(h, At(h, board))

\* gameState.board.map(row => [...row]): eight new rows and a new outer
\* array; the pieces are shared with the input.
copyBoard(h, board) ==
    LET rows == [i \in 1..8 |-> At(h, At(h, board)[i - 1])]
    IN  [heap |-> Append(h \o rows, [py \in Coord |-> Ref(Len(h) + py + 1)]),
         ret |-> Ref(Len(h) + 9)]

\* newBoard[to.y][to.x] = { ...piece, position: to, hasMoved: true } and
\* newBoard[from.y][from.x] = null
PieceMovedOnHeap(h, newBoard, piece, from, to) ==
    LET moved == Alloc(h, [At(h, piece) EXCEPT !.position = to, !.hasMoved = TRUE])
    IN  StoreCell(StoreCell(moved.heap, newBoard, to, moved.ret), newBoard, from, Null)

\* The pawn that reached its last rank is replaced by a queen.
PawnPromotedOnHeap(h, newBoard, old, to) ==
    LET promotionRank == IF old.color = WHITE THEN 0 ELSE 7
        promoted == Alloc(h, [PieceAt(h, CellAt(h, newBoard, to))
                                 EXCEPT !.type = QUEEN])
    IN  IF old.type = PAWN /\ to.y = promotionRank
        THEN StoreCell(promoted.heap, newBoard, to, promoted.ret)
        ELSE h

\* The rook of a castling move is moved too.
RookMovedOnHeap(h, newBoard, old, from, to) ==
    LET isKingSide == to.x > from.x
        rookFrom == Pos(IF isKingSide THEN 7 ELSE 0, from.y)
        rookTo == Pos(IF isKingSide THEN 5 ELSE 3, from.y)
        rook == CellAt(h, newBoard, rookFrom)
        castled == Alloc(h, [At(h, rook) EXCEPT !.position = rookTo,
                                                !.hasMoved = TRUE])
    IN  IF old.type = KING /\ Abs(to.x - from.x) = 2 /\ rook # Null
        THEN StoreCell(StoreCell(castled.heap, newBoard, rookTo, castled.ret),
                       newBoard, rookFrom, Null)
        ELSE h

\* The writes to newBoard of makeMoveBasic and of makeMove.
MovedBoardOnHeap(h, newBoard, piece, from, to) ==
    RookMovedOnHeap(
        PawnPromotedOnHeap(PieceMovedOnHeap(h, newBoard, piece, from, to),
                           newBoard, At(h, piece), to),
        newBoard, At(h, piece), from, to)

\* The end of makeMoveBasic: the new castling rights and the new state.
BasicStateOnHeap(h, gameStateRef, newBoard, old, from) ==
    LET newCastlingRights ==
            Alloc(h, updateCastlingRights(
                         At(h, At(h, gameStateRef).castlingRights), old, from))
    IN  Alloc(newCastlingRights.heap,
              [At(h, gameStateRef) EXCEPT
                  !.board = newBoard,
                  !.currentPlayer = Opponent(old.color),
                  !.castlingRights = newCastlingRights.ret])

makeMoveBasicOnHeap(h, gameStateRef, from, to) ==
    LET copied == copyBoard(h, At(h, gameStateRef).board)
        piece == CellAt(copied.heap, copied.ret, from)
    IN  IF piece = Null THEN [heap |-> copied.heap, ret |-> gameStateRef]
        ELSE BasicStateOnHeap(
                 MovedBoardOnHeap(copied.heap, copied.ret, piece, from, to),
                 gameStateRef, copied.ret, At(h, piece), from)

\* The scratch state of canCastle with the king placed on file kx.
testStateOnHeap(h, gameStateRef, king, from, kx) ==
    LET copied == copyBoard(h, At(h, gameStateRef).board)
        state == Alloc(copied.heap,
                       [At(h, gameStateRef) EXCEPT !.board = copied.ret])
        h1 == StoreCell(state.heap, copied.ret, from, Null)
        placed == Alloc(h1, [king EXCEPT !.position = Pos(kx, from.y)])
    IN  [heap |-> StoreCell(placed.heap, copied.ret, Pos(kx, from.y), placed.ret),
         ret |-> state.ret]

\* The king is not in check in a state on the heap.
KingSafeOnHeap(state, color) ==
    [heap |-> state.heap,
     ret |-> ~isKingInCheck(Deref(state.heap, state.ret), color)]

\* The second square of the king's path is tried if the first is safe.
SecondSquareOnHeap(first, gameStateRef, king, from, kx) ==
    IF ~first.ret THEN first
    ELSE KingSafeOnHeap(testStateOnHeap(first.heap, gameStateRef, king, from, kx),
                        king.color)

\* gs is the state gameStateRef stands for in h, and king one of its pieces.
canCastleOnHeap(h, gameStateRef, gs, king, from, to) ==
    LET isKingSide == to.x > from.x
        isWhite == king.color = WHITE
        rookX == IF isKingSide THEN 7 ELSE 0
        rookY == IF isWhite THEN 7 ELSE 0
        rook == gs.board[rookY][rookX]
        startX == IF from.x < rookX THEN from.x ELSE rookX
        endX == IF from.x > rookX THEN from.x ELSE rookX
        step == IF isKingSide THEN 1 ELSE -1
        mayTry ==
            /\ ~king.hasMoved
            /\ ~isKingInCheck(gs, king.color)
            /\ IF isWhite
               THEN /\ isKingSide => gs.castlingRights.whiteKingSide
                    /\ ~isKingSide => gs.castlingRights.whiteQueenSide
               ELSE /\ isKingSide => gs.castlingRights.blackKingSide
                    /\ ~isKingSide => gs.castlingRights.blackQueenSide
            /\ rook # Null
            /\ rook.color = king.color
            /\ rook.type = ROOK
            /\ ~rook.hasMoved
            /\ \A bx \in (startX + 1)..(endX - 1) : gs.board[from.y][bx] = Null
    IN  IF ~mayTry THEN [heap |-> h, ret |-> FALSE]
        ELSE SecondSquareOnHeap(
                 KingSafeOnHeap(
                     testStateOnHeap(h, gameStateRef, king, from, from.x + step),
                     king.color),
                 gameStateRef, king, from, from.x + 2 * step)

\* isValidPieceMove; only the castling move of a king allocates.
isValidPieceMoveOnHeap(h, gameStateRef, gs, piece, from, to) ==
    IF /\ piece.type = KING
       /\ ~(Abs(to.x - from.x) <= 1 /\ Abs(to.y - from.y) <= 1)
       /\ Abs(to.x - from.x) = 2 /\ to.y = from.y
    THEN canCastleOnHeap(h, gameStateRef, gs, piece, from, to)
    ELSE [heap |-> h, ret |-> isValidPieceMove(gs, piece, from, to)]

\* The end of isValidMove, after the rules of the piece were checked.
KingLeftSafeOnHeap(rules, gameStateRef, color, from, to) ==
    IF ~rules.ret THEN rules
    ELSE KingSafeOnHeap(makeMoveBasicOnHeap(rules.heap, gameStateRef, from, to),
                        color)

\* gs is the state gameStateRef stands for in h.
isValidMoveOnHeap(h, gameStateRef, gs, from, to) ==
    LET piece == gs.board[from.y][from.x]
        targetPiece == gs.board[to.y][to.x]
    IN  IF /\ piece # Null
           /\ piece.color = gs.currentPlayer
           /\ isPositionOnBoard(to)
           /\ ~(targetPiece # Null /\ targetPiece.color = piece.color)
        THEN KingLeftSafeOnHeap(
                 isValidPieceMoveOnHeap(h, gameStateRef, gs, piece, from, to),
                 gameStateRef, piece.color, from, to)
        ELSE [heap |-> h, ret |-> FALSE]

\* One turn of the loop of getValidMoves, after isValidMove returned.  The
\* state is read again after a call that allocated.
DestinationTriedOnHeap(h, gameStateRef, gs, to, valid) ==
    LET allocated == Len(valid.heap) > Len(h)
        left == Drop(h, valid.heap)
    IN  [heap |-> IF allocated THEN left ELSE h,
         state |-> IF allocated THEN Deref(left, gameStateRef) ELSE gs,
         ret |-> IF valid.ret THEN << to >> ELSE << >>]

RECURSIVE getValidMovesOnHeap(_, _, _, _, _, _)
\* The loop of getValidMoves over its destinations number lo to hi - 1 (row
\* by row), computed by halves; state is what gameStateRef stands for in the
\* heap left.
getValidMovesOnHeap(h, gameStateRef, gs, position, lo, hi) ==
    IF hi = lo + 1
    THEN DestinationTriedOnHeap(
             h, gameStateRef, gs, Pos(lo % 8, lo \div 8),
             isValidMoveOnHeap(h, gameStateRef, gs, position, Pos(lo % 8, lo \div 8)))
    ELSE LET mid == (lo + hi) \div 2
             first == getValidMovesOnHeap(h, gameStateRef, gs, position, lo, mid)
             second == getValidMovesOnHeap(first.heap, gameStateRef, first.state,
                                           position, mid, hi)
         IN  IF first.ret = << >> THEN second
             ELSE [second EXCEPT !.ret = first.ret \o @]

\* The moves getAllPossibleMoves pushes for one piece.
MovesPushedOnHeap(from, piece, validMoves) ==
    [heap |-> validMoves.heap,
     ret |-> [i \in 1..Len(validMoves.ret) |->
                 [from |-> from, to |-> validMoves.ret[i], piece |-> piece]]]

RECURSIVE getAllPossibleMovesOnHeap(_, _, _, _, _)
\* The loop of getAllPossibleMoves over the squares number lo to hi - 1 (row
\* by row), computed by halves.
getAllPossibleMovesOnHeap(h, gameStateRef, color, lo, hi) ==
    IF hi = lo + 1
    THEN LET from == Pos(lo % 8, lo \div 8)
             playerColor == IF color = Undefined
                            THEN At(h, gameStateRef).currentPlayer ELSE color
             piece == CellAt(h, At(h, gameStateRef).board, from)
         IN  IF piece # Null /\ At(h, piece).color = playerColor
             THEN MovesPushedOnHeap(
                      from, piece,
                      getValidMovesOnHeap(h, gameStateRef, Deref(h, gameStateRef),
                                          from, 0, 64))
             ELSE [heap |-> h, ret |-> << >>]
    ELSE LET mid == (lo + hi) \div 2
             first == getAllPossibleMovesOnHeap(h, gameStateRef, color, lo, mid)
             second == getAllPossibleMovesOnHeap(first.heap, gameStateRef, color,
                                                 mid, hi)
         IN  IF first.ret = << >> THEN second
             ELSE [second EXCEPT !.ret = first.ret \o @]

\* getValidMoves returned some move.
SomeMoveOnHeap(validMoves) ==
    [heap |-> validMoves.heap, ret |-> Len(validMoves.ret) > 0]

RECURSIVE HasValidMoveOnHeap(_, _, _, _, _)
\* The loop shared by isCheckmate and isStalemate over the squares number lo
\* to hi - 1, computed by halves: it stops at the first piece of the colour
\* that has a valid move.
HasValidMoveOnHeap(h, gameStateRef, color, lo, hi) ==
    IF hi = lo + 1
    THEN LET from == Pos(lo % 8, lo \div 8)
             piece == CellAt(h, At(h, gameStateRef).board, from)
         IN  IF piece # Null /\ At(h, piece).color = color
             THEN SomeMoveOnHeap(
                      getValidMovesOnHeap(h, gameStateRef, Deref(h, gameStateRef),
                                          from, 0, 64))
             ELSE [heap |-> h, ret |-> FALSE]
    ELSE LET mid == (lo + hi) \div 2
             first == HasValidMoveOnHeap(h, gameStateRef, color, lo, mid)
         IN  IF first.ret THEN first
             ELSE HasValidMoveOnHeap(first.heap, gameStateRef, color, mid, hi)

isCheckmateOnHeap(h, gameStateRef, color) ==
    IF ~isKingInCheck(Deref(h, gameStateRef), color)
    THEN [heap |-> h, ret |-> FALSE]
    ELSE [HasValidMoveOnHeap(h, gameStateRef, color, 0, 64) EXCEPT !.ret = ~@]

isStalemateOnHeap(h, gameStateRef, color) ==
    IF isKingInCheck(Deref(h, gameStateRef), color)
    THEN [heap |-> h, ret |-> FALSE]
    ELSE [HasValidMoveOnHeap(h, gameStateRef, color, 0, 64) EXCEPT !.ret = ~@]

\* The move record, the new castling rights, the new moves array and the new
\* state of makeMove.
NewStateOnHeap(h, gameStateRef, newBoard, piece, capturedPiece, from, to) ==
    LET old == At(h, piece)
        move == [MoveRecord(At(h, gameStateRef), old, capturedPiece, from, to)
                    EXCEPT !.piece = piece]
        newCastlingRights ==
            Alloc(h, updateCastlingRights(
                         At(h, At(h, gameStateRef).castlingRights), old, from))
        moves == Alloc(newCastlingRights.heap,
                       Append(At(h, At(h, gameStateRef).moves), move))
    IN  Alloc(moves.heap,
              [At(h, gameStateRef) EXCEPT
                  !.board = newBoard,
                  !.currentPlayer = Opponent(old.color),
                  !.moves = moves.ret,
                  !.castlingRights = newCastlingRights.ret])

\* newState.isCheck = isKingInCheck(newState, opponentColor)
isCheckSetOnHeap(h, newState, opponentColor) ==
    [h EXCEPT ![newState.ref].isCheck =
                  isKingInCheck(Deref(h, newState), opponentColor)]

CheckmateStoredOnHeap(h, newState, checkmate) ==
    [Drop(h, checkmate.heap) EXCEPT ![newState.ref].isCheckmate = checkmate.ret]

\* newState.isCheckmate = isCheckmate(newState, opponentColor)
isCheckmateSetOnHeap(h, newState, opponentColor) ==
    CheckmateStoredOnHeap(h, newState,
                          isCheckmateOnHeap(h, newState, opponentColor))

StalemateStoredOnHeap(h, newState, color, stalemate) ==
    [Drop(h, stalemate.heap) EXCEPT
        ![newState.ref].isStalemate = stalemate.ret,
        ![newState.ref].isGameOver = At(h, newState).isCheckmate \/ stalemate.ret,
        ![newState.ref].winner = IF At(h, newState).isCheckmate THEN color ELSE @]

\* newState.isStalemate, newState.isGameOver and newState.winner
isStalemateSetOnHeap(h, newState, opponentColor) ==
    StalemateStoredOnHeap(h, newState, Opponent(opponentColor),
                          isStalemateOnHeap(h, newState, opponentColor))

\* The end of makeMove: the flags of the new state are written to it.
GameEndingConditionsOnHeap(created, opponentColor) ==
    [heap |-> isStalemateSetOnHeap(
                  isCheckmateSetOnHeap(
                      isCheckSetOnHeap(created.heap, created.ret, opponentColor),
                      created.ret, opponentColor),
                  created.ret, opponentColor),
     ret |-> created.ret]

makeMoveOnHeap(h, gameStateRef, from, to) ==
    LET copied == copyBoard(h, At(h, gameStateRef).board)
        piece == CellAt(copied.heap, copied.ret, from)
        capturedPiece == CellAt(copied.heap, copied.ret, to)
    IN  IF piece = Null THEN [heap |-> copied.heap, ret |-> gameStateRef]
        ELSE GameEndingConditionsOnHeap(
                 NewStateOnHeap(
                     MovedBoardOnHeap(copied.heap, copied.ret, piece, from, to),
                     gameStateRef, copied.ret, piece, capturedPiece, from, to),
                 Opponent(At(h, piece).color))

\* The games played on the heap.
HeapLines == { FoolsMateLine, CastleKingSideLine, PromotionLine }

\* The squares of the calls made besides the moves of the games: e1, g1, e2,
\* e4 (empty at first), e8 and g8.
ProbeSquares == { Pos(4, 7), Pos(6, 7), Pos(4, 6), Pos(4, 4), Pos(4, 0), Pos(6, 0) }

\* What the caller holds: the objects up to and including its game state.
\* What earlier calls allocated beyond it has been dropped.
Held == SubSeq(heap, 1, stateRef.ref)

HeapInit ==
    /\ gameState = createInitialState("game", "White", "Black")
    /\ heap = createInitialStateOnHeap
    /\ stateRef = Ref(Len(createInitialStateOnHeap))
    /\ call = NoHeapCall
    /\ tt = TranspositionTable(1000000)
    /\ now = 0
    /\ seen = 0
    /\ ttReturned = NoCall
    /\ ai = AIIdle
    /\ ExtIdle

\* A call op(gameState, from, to) or op(gameState, color) of the engine has
\* returned; the caller keeps the state returned, or drops what was returned.
Called(op, from, to, color, result, kept) ==
    /\ heap' = result.heap
    /\ stateRef' = IF kept THEN result.ret ELSE stateRef
    /\ call' = [op |-> op, gameState |-> stateRef, from |-> from, to |-> to,
                color |-> color, before |-> Held, returned |-> result.ret,
                kept |-> kept]

\* The caller validates a move of a recorded game, makes it and keeps the
\* state returned.
HeapMakeMove(from, to) ==
    /\ isValidMove(gameState, from, to)
    /\ \E line \in HeapLines :
          IsPrefix(Append(Played(gameState.moves),
                          << from.x, from.y, to.x, to.y >>), line)
    /\ Called("makeMove", from, to, Undefined,
              makeMoveOnHeap(Held, stateRef, from, to), TRUE)
    /\ gameState' = makeMove(gameState, from, to)
    /\ UNCHANGED << ttVars, ai, extVars >>

\* Between two moves of a game the caller makes one call whose result it
\* drops.
MayTry == call.kept

\* makeMove is called without validation and its result is dropped.
HeapTryMove(from, to) ==
    /\ MayTry
    /\ Called("makeMove", from, to, Undefined,
              makeMoveOnHeap(Held, stateRef, from, to), FALSE)
    /\ UNCHANGED << gameState, ttVars, ai, extVars >>

HeapIsValidMove(from, to) ==
    /\ MayTry
    /\ Called("isValidMove", from, to, Undefined,
              isValidMoveOnHeap(Held, stateRef, Deref(Held, stateRef), from, to),
              FALSE)
    /\ UNCHANGED << gameState, ttVars, ai, extVars >>

HeapGetAllPossibleMoves(color) ==
    /\ MayTry
    /\ Called("getAllPossibleMoves", Null, Null, color,
              getAllPossibleMovesOnHeap(Held, stateRef, color, 0, 64), FALSE)
    /\ UNCHANGED << gameState, ttVars, ai, extVars >>

HeapNext ==
    \/ \E from \in Squares, to \in Squares : HeapMakeMove(from, to)
    \/ \E from \in ProbeSquares, to \in ProbeSquares : HeapTryMove(from, to)
    \/ \E from \in ProbeSquares, to \in ProbeSquares : HeapIsValidMove(from, to)
    \/ \E color \in { Undefined, WHITE, BLACK } : HeapGetAllPossibleMoves(color)

SpecHeap == HeapInit /\ [][HeapNext]_vars

----------------------------------------------------------------------------
(* The static evaluation (BoardEvaluator.ts): the score of a position in   *)
(* centipawns, from white's side.                                          *)

PAWN_TABLE ==
    << << 0,  0,  0,  0,  0,  0,  0,  0 >>,
       << 50, 50, 50, 50, 50, 50, 50, 50 >>,
       << 10, 10, 20, 30, 30, 20, 10, 10 >>,
       << 5,  5, 10, 25, 25, 10,  5,  5 >>,
       << 0,  0,  0, 20, 20,  0,  0,  0 >>,
       << 5, -5,-10,  0,  0,-10, -5,  5 >>,
       << 5, 10, 10,-20,-20, 10, 10,  5 >>,
       << 0,  0,  0,  0,  0,  0,  0,  0 >> >>

KNIGHT_TABLE ==
    << << -50,-40,-30,-30,-30,-30,-40,-50 >>,
       << -40,-20,  0,  0,  0,  0,-20,-40 >>,
       << -30,  0, 10, 15, 15, 10,  0,-30 >>,
       << -30,  5, 15, 20, 20, 15,  5,-30 >>,
       << -30,  0, 15, 20, 20, 15,  0,-30 >>,
       << -30,  5, 10, 15, 15, 10,  5,-30 >>,
       << -40,-20,  0,  5,  5,  0,-20,-40 >>,
       << -50,-40,-30,-30,-30,-30,-40,-50 >> >>

BISHOP_TABLE ==
    << << -20,-10,-10,-10,-10,-10,-10,-20 >>,
       << -10,  0,  0,  0,  0,  0,  0,-10 >>,
       << -10,  0,  5, 10, 10,  5,  0,-10 >>,
       << -10,  5,  5, 10, 10,  5,  5,-10 >>,
       << -10,  0, 10, 10, 10, 10,  0,-10 >>,
       << -10, 10, 10, 10, 10, 10, 10,-10 >>,
       << -10,  5,  0,  0,  0,  0,  5,-10 >>,
       << -20,-10,-10,-10,-10,-10,-10,-20 >> >>

ROOK_TABLE ==
    << << 0,  0,  0,  0,  0,  0,  0,  0 >>,
       << 5, 10, 10, 10, 10, 10, 10,  5 >>,
       << -5,  0,  0,  0,  0,  0,  0, -5 >>,
       << -5,  0,  0,  0,  0,  0,  0, -5 >>,
       << -5,  0,  0,  0,  0,  0,  0, -5 >>,
       << -5,  0,  0,  0,  0,  0,  0, -5 >>,
       << -5,  0,  0,  0,  0,  0,  0, -5 >>,
       << 0,  0,  0,  5,  5,  0,  0,  0 >> >>

QUEEN_TABLE ==
    << << -20,-10,-10, -5, -5,-10,-10,-20 >>,
       << -10,  0,  0,  0,  0,  0,  0,-10 >>,
       << -10,  0,  5,  5,  5,  5,  0,-10 >>,
       << -5,  0,  5,  5,  5,  5,  0, -5 >>,
       << 0,  0,  5,  5,  5,  5,  0, -5 >>,
       << -10,  5,  5,  5,  5,  5,  0,-10 >>,
       << -10,  0,  5,  0,  0,  0,  0,-10 >>,
       << -20,-10,-10, -5, -5,-10,-10,-20 >> >>

KING_MIDDLE_GAME_TABLE ==
    << << -30,-40,-40,-50,-50,-40,-40,-30 >>,
       << -30,-40,-40,-50,-50,-40,-40,-30 >>,
       << -30,-40,-40,-50,-50,-40,-40,-30 >>,
       << -30,-40,-40,-50,-50,-40,-40,-30 >>,
       << -20,-30,-30,-40,-40,-30,-30,-20 >>,
       << -10,-20,-20,-20,-20,-20,-20,-10 >>,
       << 20, 20,  0,  0,  0,  0, 20, 20 >>,
       << 20, 30, 10,  0,  0, 10, 30, 20 >> >>

KING_END_GAME_TABLE ==
    << << -50,-40,-30,-20,-20,-30,-40,-50 >>,
       << -30,-20,-10,  0,  0,-10,-20,-30 >>,
       << -30,-10, 20, 30, 30, 20,-10,-30 >>,
       << -30,-10, 30, 40, 40, 30,-10,-30 >>,
       << -30,-10, 30, 40, 40, 30,-10,-30 >>,
       << -30,-10, 20, 30, 30, 20,-10,-30 >>,
       << -30,-30,  0,  0,  0,  0,-30,-30 >>,
       << -50,-30,-30,-30,-30,-30,-30,-50 >> >>

RECURSIVE SumSeq(_, _)
\* s[i] + s[i + 1] + ...
SumSeq(s, i) == IF i > Len(s) THEN 0 ELSE s[i] + SumSeq(s, i + 1)

\* The squares in the order of the loops over y and x: the i-th of them.
SquareAt(i) == Pos((i - 1) % 8, (i - 1) \div 8)

\* The sum of term over the pieces of the board.
PieceSum(gs, term(_, _)) ==
    SumSeq([i \in 1..64 |->
               LET piece == gs.board[SquareAt(i).y][SquareAt(i).x]
               IN  IF piece = Null THEN 0 ELSE term(piece, SquareAt(i))], 1)

\* The pieces of a colour count for it, the others against it.
ForWhite(color, n) == IF color = WHITE THEN n ELSE -n

evaluateMaterial(gs) ==
    LET value(piece, square) == ForWhite(piece.color, getPieceValue(piece.type))
    IN  PieceSum(gs, value)

isEndgame(gs) ==
    LET value(piece, square) ==
            IF piece.type # KING /\ piece.type # PAWN
            THEN getPieceValue(piece.type) ELSE 0
    IN  PieceSum(gs, value) < 1300

getPieceSquareValue(piece, x, y, endgame) ==
    LET tableY == IF piece.color = WHITE THEN 7 - y ELSE y
    IN  CASE piece.type = PAWN -> PAWN_TABLE[tableY + 1][x + 1]
          [] piece.type = KNIGHT -> KNIGHT_TABLE[tableY + 1][x + 1]
          [] piece.type = BISHOP -> BISHOP_TABLE[tableY + 1][x + 1]
          [] piece.type = ROOK -> ROOK_TABLE[tableY + 1][x + 1]
          [] piece.type = QUEEN -> QUEEN_TABLE[tableY + 1][x + 1]
          [] piece.type = KING ->
                IF endgame THEN KING_END_GAME_TABLE[tableY + 1][x + 1]
                ELSE KING_MIDDLE_GAME_TABLE[tableY + 1][x + 1]
          [] OTHER -> 0

evaluatePosition(gs) ==
    LET endgame == isEndgame(gs)
        value(piece, square) ==
            ForWhite(piece.color,
                     getPieceSquareValue(piece, square.x, square.y, endgame))
    IN  PieceSum(gs, value)

\* BoardEvaluator.findKing
evaluatorFindKing(gs, color) == findKing(gs, color)

evaluateKingExposure(gs, kingPos, color) ==
    LET exposed == { d \in (-1..1) \X (-1..1) :
                       /\ d # << 0, 0 >>
                       /\ kingPos.x + d[1] \in Coord
                       /\ kingPos.y + d[2] \in Coord
                       /\ LET piece == gs.board[kingPos.y + d[2]][kingPos.x + d[1]]
                          IN  piece = Null \/ piece.color # color }
    IN  -(10 * Cardinality(exposed))

evaluateKingSafety(gs) ==
    LET whiteKing == evaluatorFindKing(gs, WHITE)
        blackKing == evaluatorFindKing(gs, BLACK)
        rights == gs.castlingRights
    IN  IF whiteKing = Null \/ blackKing = Null THEN 0
        ELSE evaluateKingExposure(gs, whiteKing, WHITE)
             - evaluateKingExposure(gs, blackKing, BLACK)
             + (IF rights.whiteKingSide \/ rights.whiteQueenSide THEN 20 ELSE 0)
             - (IF rights.blackKingSide \/ rights.blackQueenSide THEN 20 ELSE 0)

getPawns(gs, color) ==
    { p \in Squares :
        /\ gs.board[p.y][p.x] # Null
        /\ gs.board[p.y][p.x].type = PAWN
        /\ gs.board[p.y][p.x].color = color }

\* The files with more than one of the pawns.
countDoubledPawns(pawns) ==
    Cardinality({ file \in Coord :
                    Cardinality({ p \in pawns : p.x = file }) > 1 })

countIsolatedPawns(pawns) ==
    Cardinality({ pawn \in pawns :
                    \A p \in pawns : p.x # pawn.x - 1 /\ p.x # pawn.x + 1 })

isPassedPawn(gs, pawn, color) ==
    LET ahead == IF color = WHITE THEN 0..(pawn.y - 1) ELSE (pawn.y + 1)..7
    IN  \A y \in ahead, x \in Max(0, pawn.x - 1)..Min(7, pawn.x + 1) :
           LET piece == gs.board[y][x]
           IN  ~(piece # Null /\ piece.type = PAWN /\ piece.color = Opponent(color))

countPassedPawns(gs, pawns, color) ==
    Cardinality({ pawn \in pawns : isPassedPawn(gs, pawn, color) })

evaluatePawnStructure(gs) ==
    LET whitePawns == getPawns(gs, WHITE)
        blackPawns == getPawns(gs, BLACK)
    IN  - countDoubledPawns(whitePawns) * 10
        + countDoubledPawns(blackPawns) * 10
        - countIsolatedPawns(whitePawns) * 15
        + countIsolatedPawns(blackPawns) * 15
        + countPassedPawns(gs, whitePawns, WHITE) * 20
        - countPassedPawns(gs, blackPawns, BLACK) * 20

evaluateMobility(gs) ==
    LET centerSquares == { Pos(3, 3), Pos(3, 4), Pos(4, 3), Pos(4, 4) }
        held(color) == Cardinality({ s \in centerSquares :
                                       /\ gs.board[s.y][s.x] # Null
                                       /\ gs.board[s.y][s.x].color = color })
    IN  10 * held(WHITE) - 10 * held(BLACK)

\* 7 - (|x - 3.5| + |y - 3.5|), a whole number
getKingCentrality(kingPos) ==
    7 - (Abs(2 * kingPos.x - 7) + Abs(2 * kingPos.y - 7)) \div 2

evaluateEndgame(gs) ==
    LET whiteKing == evaluatorFindKing(gs, WHITE)
        blackKing == evaluatorFindKing(gs, BLACK)
    IN  IF whiteKing = Null \/ blackKing = Null THEN 0
        ELSE (getKingCentrality(whiteKing) - getKingCentrality(blackKing)) * 5

evaluate(gs) ==
    evaluateMaterial(gs)
    + evaluatePosition(gs)
    + evaluateKingSafety(gs)
    + evaluatePawnStructure(gs)
    + evaluateMobility(gs)
    + (IF isEndgame(gs) THEN evaluateEndgame(gs) ELSE 0)

----------------------------------------------------------------------------
(* The search below the root (ChessAI.minimax, ChessAI.quiescenceSearch),  *)
(* followed call by call.  The calls of minimax that have not returned are *)
(* the frames of search.stack, the innermost last; the table is            *)
(* ChessAI.transpositionTable, which the calls of findBestMove share.      *)

\* ZobristHash.getPieceIndex
getPieceIndex(type, color) ==
    LET pieceTypeIndex ==
            CASE type = PAWN -> 0 [] type = KNIGHT -> 1 [] type = BISHOP -> 2
              [] type = ROOK -> 3 [] type = QUEEN -> 4 [] type = KING -> 5
    IN  pieceTypeIndex + (IF color = WHITE THEN 0 ELSE 6)

\* ZobristHash.hash, position by position: the hash is the XOR of one
\* random number for each piece on its square, one for black to move and
\* one for each castling right (no state has an enPassantTarget); the key
\* here lists what has been XORed in: for each square in the order of the
\* loops the piece index plus one (0 for an empty square), then the side to
\* move and the four rights.  Positions that differ in one of these are
\* taken to have different keys.
ZobristHash(gs) ==
    [i \in 1..64 |->
        LET piece == gs.board[(i - 1) \div 8][(i - 1) % 8]
        IN  IF piece = Null THEN 0
            ELSE getPieceIndex(piece.type, piece.color) + 1]
    \o << IF gs.currentPlayer = BLACK THEN 1 ELSE 0,
          IF gs.castlingRights.whiteKingSide THEN 1 ELSE 0,
          IF gs.castlingRights.whiteQueenSide THEN 1 ELSE 0,
          IF gs.castlingRights.blackKingSide THEN 1 ELSE 0,
          IF gs.castlingRights.blackQueenSide THEN 1 ELSE 0 >>

\* MoveGenerator.getCapturingMoves
getCapturingMoves(gs, color) ==
    SelectSeq(getAllValidMoves(gs, color), LAMBDA move : move.capturedPiece # Null)

RECURSIVE quiescenceTraced(_, _, _, _, _)
RECURSIVE QuiescenceMoves(_, _, _, _, _, _, _, _)

\* quiescenceSearch has the result of its call for orderedMoves[i]: lines
\* 199 to 207.  plies is the number of plies below the position that the
\* calls made so far have reached.
QuiescenceScored(gs, orderedMoves, i, alpha, beta, isMaximizing, depth, plies, child) ==
    LET score == child.score
        reached == Max(plies, child.plies + 1)
    IN  IF isMaximizing
        THEN IF Max(alpha, score) >= beta
             THEN [score |-> Max(alpha, score), plies |-> reached]
             ELSE QuiescenceMoves(gs, orderedMoves, i + 1, Max(alpha, score), beta,
                                  isMaximizing, depth, reached)
        ELSE IF Min(beta, score) <= alpha
             THEN [score |-> Min(beta, score), plies |-> reached]
             ELSE QuiescenceMoves(gs, orderedMoves, i + 1, alpha, Min(beta, score),
                                  isMaximizing, depth, reached)

\* The loop of quiescenceSearch from orderedMoves[i] on, and its return.
QuiescenceMoves(gs, orderedMoves, i, alpha, beta, isMaximizing, depth, plies) ==
    IF i > Len(orderedMoves)
    THEN [score |-> IF isMaximizing THEN alpha ELSE beta, plies |-> plies]
    ELSE QuiescenceScored(gs, orderedMoves, i, alpha, beta, isMaximizing, depth, plies,
            quiescenceTraced(makeMove(gs, orderedMoves[i].from, orderedMoves[i].to),
                             alpha, beta, ~isMaximizing, depth - 1))

\* quiescenceSearch once the position has been evaluated: lines 185 to 196.
QuiescenceStandPat(gs, alpha, beta, isMaximizing, depth, standPat) ==
    IF depth = 0 THEN [score |-> standPat, plies |-> 0]
    ELSE IF isMaximizing /\ standPat >= beta THEN [score |-> beta, plies |-> 0]
    ELSE IF ~isMaximizing /\ standPat <= alpha THEN [score |-> alpha, plies |-> 0]
    ELSE QuiescenceMoves(gs,
            orderMoves(gs, getCapturingMoves(gs, gs.currentPlayer)), 1,
            IF isMaximizing THEN Max(alpha, standPat) ELSE alpha,
            IF isMaximizing THEN beta ELSE Min(beta, standPat),
            isMaximizing, depth, 0)

\* quiescenceSearch: the score it returns, and the number of plies below
\* the position that its calls of itself have reached.
quiescenceTraced(gs, alpha, beta, isMaximizing, depth) ==
    QuiescenceStandPat(gs, alpha, beta, isMaximizing, depth, evaluate(gs))

\* ChessAI.quiescenceSearch
quiescenceSearch(gs, alpha, beta, isMaximizing, depth) ==
    quiescenceTraced(gs, alpha, beta, isMaximizing, depth).score

\* The locals of a call of minimax that has reached its loop over the moves,
\* and the number of its moves whose call of minimax has returned a score.
MinimaxFrame(gs, depth, alpha, beta, isMaximizing, orderedMoves) ==
    [ gs |-> gs, depth |-> depth, alpha |-> alpha, beta |-> beta,
      isMaximizing |-> isMaximizing, orderedMoves |-> orderedMoves,
      index |-> 1, bestScore |-> IF isMaximizing THEN -Infinity ELSE Infinity,
      aborted |-> FALSE, explored |-> 0 ]

NoFrame == MinimaxFrame(Null, 0, 0, 0, FALSE, << >>)

\* minimax returns at once.
Returns(returned) == [returns |-> TRUE, returned |-> returned, frame |-> NoFrame]

\* minimax has the moves of the position: lines 133 to 144.
minimaxMoves(gs, depth, alpha, beta, isMaximizing, moves) ==
    IF Len(moves) = 0
    THEN Returns(MinimaxReturn(gs, depth, isMaximizing, FALSE,
                    IF gs.isCheck
                    THEN (IF isMaximizing THEN -10000 + depth ELSE 10000 - depth)
                    ELSE 0,
                    "nomoves"))
    ELSE [ returns |-> FALSE, returned |-> NoReturn,
           frame |-> MinimaxFrame(gs, depth, alpha, beta, isMaximizing,
                                  orderMoves(gs, moves)) ]

\* minimax has looked the position up in the table: lines 129 to 132.
minimaxProbed(gs, depth, alpha, beta, isMaximizing, ttEntry) ==
    IF ttEntry # Null
    THEN Returns(MinimaxReturn(gs, depth, isMaximizing, FALSE, ttEntry.score, "table"))
    ELSE minimaxMoves(gs, depth, alpha, beta, isMaximizing,
                      getAllValidMoves(gs, gs.currentPlayer))

\* minimax is called: lines 119 to 144.  It returns at once, or reaches its
\* loop over the moves.
minimaxEntered(gs, depth, alpha, beta, isMaximizing) ==
    IF Elapsed > ai.timeLimit
    THEN Returns(MinimaxReturn(gs, depth, isMaximizing, TRUE, 0, "timeout"))
    ELSE IF depth = 0 \/ gs.isGameOver
    THEN Returns(MinimaxReturn(gs, depth, isMaximizing, FALSE,
                    quiescenceSearch(gs, alpha, beta, isMaximizing, 3),
                    "quiescence"))
    ELSE minimaxProbed(gs, depth, alpha, beta, isMaximizing,
                       getAt(tt, ZobristHash(gs), depth))

\* The loop of minimax has the result of the call for its move: lines 150
\* to 163.  After a cutoff no move is left.
FrameFolded(frame, returned) ==
    IF returned.isNull THEN [frame EXCEPT !.aborted = TRUE]
    ELSE LET score == returned.score
             bestScore == IF frame.isMaximizing THEN Max(frame.bestScore, score)
                          ELSE Min(frame.bestScore, score)
             alpha == IF frame.isMaximizing THEN Max(frame.alpha, score)
                      ELSE frame.alpha
             beta == IF frame.isMaximizing THEN frame.beta
                     ELSE Min(frame.beta, score)
         IN  [frame EXCEPT
                !.bestScore = bestScore, !.alpha = alpha, !.beta = beta,
                !.explored = frame.explored + 1,
                !.index = IF beta <= alpha THEN Len(frame.orderedMoves) + 1
                          ELSE frame.index + 1]

\* The loop of searchWithTimeout has the result of the call for its move:
\* lines 89 to 102.
RootFolded(a, returned) ==
    LET move == a.orderedMoves[a.index]
        score == returned.score
        better == score > a.searchScore
        alpha == IF better THEN Max(a.alpha, score) ELSE a.alpha
        searched == [a EXCEPT
                        !.pc = "search",
                        !.minimaxCalled = TRUE,
                        !.ttAccessed = @ \/ returned.via \notin {"timeout", "quiescence"}]
        scored == [searched EXCEPT
                      !.searchScore = IF better THEN score ELSE @,
                      !.searchMove = IF better THEN move ELSE @,
                      !.alpha = alpha]
    IN  IF returned.isNull THEN SearchReturned(searched)
        ELSE IF a.beta <= alpha THEN SearchReturned(scored)
        ELSE [scored EXCEPT !.index = a.index + 1]

\* searchWithTimeout calls minimax for its next move: lines 83 to 88.
MinimaxCalled ==
    /\ ai.pc = "search"
    /\ ai.index <= Len(ai.orderedMoves)
    /\ ~(Elapsed > ai.timeLimit)
    /\ LET move == ai.orderedMoves[ai.index]
           newGameState == makeMove(gameState, move.from, move.to)
           entered == minimaxEntered(newGameState, ai.depth - 1, ai.alpha,
                                     ai.beta, FALSE)
       IN  IF entered.returns
           THEN /\ ai' = RootFolded(ai, entered.returned)
                /\ search' = [search EXCEPT !.returned = entered.returned]
           ELSE /\ ai' = [ai EXCEPT !.pc = "minimax", !.minimaxCalled = TRUE,
                                    !.ttAccessed = TRUE]
                /\ search' = [search EXCEPT !.stack = << entered.frame >>]
    /\ UNCHANGED << gameState, heapVars, ttVars, appVars >>

\* The innermost call of minimax.
Top == search.stack[Len(search.stack)]

\* The innermost call of minimax goes on with its next move: lines 145 to
\* 151.
MinimaxStep ==
    /\ ai.pc = "minimax"
    /\ ~Top.aborted
    /\ Top.index <= Len(Top.orderedMoves)
    /\ LET move == Top.orderedMoves[Top.index]
           newGameState == makeMove(Top.gs, move.from, move.to)
           entered == minimaxEntered(newGameState, Top.depth - 1, Top.alpha,
                                     Top.beta, ~Top.isMaximizing)
           n == Len(search.stack)
       IN  search' =
              IF Elapsed > ai.timeLimit
              THEN [search EXCEPT !.stack[n].aborted = TRUE]
              ELSE IF entered.returns
              THEN [search EXCEPT
                       !.stack[n] = FrameFolded(Top, entered.returned),
                       !.returned = entered.returned]
              ELSE [search EXCEPT !.stack = Append(@, entered.frame)]
    /\ UNCHANGED << gameState, heapVars, ttVars, ai, appVars >>

\* minimax storing its best score also when it returns null.
MinimaxReturned_StoresAnyway ==
    /\ ai.pc = "minimax"
    /\ Top.aborted \/ Top.index > Len(Top.orderedMoves)
    /\ LET returned == MinimaxReturn(Top.gs, Top.depth, Top.isMaximizing,
                                     Top.aborted,
                                     IF Top.aborted THEN 0 ELSE Top.bestScore,
                                     IF Top.aborted THEN "timeout" ELSE "searched")
           rest == SubSeq(search.stack, 1, Len(search.stack) - 1)
       IN  /\ tt' = setAt(tt, ZobristHash(Top.gs), Top.depth, Top.bestScore,
                          Undefined, "exact")
           /\ IF rest = << >>
              THEN /\ ai' = RootFolded(ai, returned)
                   /\ search' = [search EXCEPT !.stack = << >>,
                                               !.returned = returned]
              ELSE /\ ai' = ai
                   /\ search' = [search EXCEPT
                                    !.stack = [rest EXCEPT ![Len(rest)] =
                                                  FrameFolded(@, returned)],
                                    !.returned = returned]
    /\ UNCHANGED << gameState, heapVars, now, seen, ttReturned, appVars >>

\* The innermost call of minimax returns: null after the time limit (lines
\* 146 and 151), else its best score, which it has stored in the table
\* (lines 166 to 169).
MinimaxReturned ==
    /\ ai.pc = "minimax"
    /\ Top.aborted \/ Top.index > Len(Top.orderedMoves)
    /\ LET returned == MinimaxReturn(Top.gs, Top.depth, Top.isMaximizing,
                                     Top.aborted,
                                     IF Top.aborted THEN 0 ELSE Top.bestScore,
                                     IF Top.aborted THEN "timeout" ELSE "searched")
           rest == SubSeq(search.stack, 1, Len(search.stack) - 1)
       IN  /\ tt' = IF Top.aborted THEN tt
                    ELSE setAt(tt, ZobristHash(Top.gs), Top.depth, Top.bestScore,
                               Undefined, "exact")
           /\ IF rest = << >>
              THEN /\ ai' = RootFolded(ai, returned)
                   /\ search' = [search EXCEPT !.stack = << >>,
                                               !.returned = returned]
              ELSE /\ ai' = ai
                   /\ search' = [search EXCEPT
                                    !.stack = [rest EXCEPT ![Len(rest)] =
                                                  FrameFolded(@, returned)],
                                    !.returned = returned]
    /\ UNCHANGED << gameState, heapVars, now, seen, ttReturned, appVars >>

\* The depth searched to and the time limit: the clock stands still while
\* the search is followed, so that no limit is reached.
SearchMaxDepth == 2
SearchTimeLimit == 1

\* f2f3 e7e5 g2g4 (black mates with d8h4)
BeforeFoolsMate == Upto(FoolsMateLine, 3)

\* The stalemate game with white's last move to come.
BeforeStalemate == Upto(StalemateLine, 18)

\* The positions searched.
SearchPositions ==
    { PlayedOut(createInitialState("game", "White", "Black"), line, 1) :
        line \in { BeforeFoolsMate, BeforeStalemate } }

\* ChessAI before its first search of a position.
Unsearched(positions) ==
    /\ gameState \in positions
    /\ tt = TranspositionTable(1000000)
    /\ now = 0
    /\ seen = 0
    /\ ttReturned = NoCall
    /\ ai = AIIdle
    /\ HeapIdle
    /\ ExtIdle

SearchInit == Unsearched(SearchPositions)

SearchNext ==
    \/ FindBestMove(SearchMaxDepth, SearchTimeLimit)
    \/ IterativeDeepening
    \/ SearchWithTimeout
    \/ SearchBreak
    \/ MinimaxCalled
    \/ MinimaxStep
    \/ MinimaxReturned

SpecSearch == SearchInit /\ [][SearchNext]_vars

\* The time limit of the searches during which the clock runs.
ClockTimeLimit == 0

\* The search while the clock runs: a millisecond may pass at any point of
\* it, and the time limit is then exceeded.
SearchClockNext ==
    \/ FindBestMove(SearchMaxDepth, ClockTimeLimit)
    \/ IterativeDeepening
    \/ SearchWithTimeout
    \/ SearchBreak
    \/ MinimaxCalled
    \/ MinimaxStep
    \/ MinimaxReturned
    \/ Tick

SpecSearchClock == SearchInit /\ [][SearchClockNext]_vars

\* A step of findBestMove is taken: the steps of the search leave the
\* clock as it is, and the clock's step leaves the search as it is.
SearchStepTaken == now' = now

\* findBestMove is one synchronous call, so whatever step of it is to come
\* is taken while the clock runs: weak fairness of the steps of the search
\* taken together.  A step of the search is enabled exactly when
\* findBestMove has not returned (the guards of the steps at each value of
\* ai.pc are each other's complement), so the condition is written with this
\* enabling condition and names the head of the loop for itself.
SearchGoesOn ==
    /\ WF_vars(IterativeDeepening)
    /\ []<>(ai.pc = "returned") \/ []<><<SearchStepTaken>>_vars

SpecSearchFair ==
    SearchInit /\ [][SearchClockNext]_vars /\ SearchGoesOn

\* The calls of findBestMove made one after the other.
MaxCalls == 3

\* The positions searched again and again: white is in check and has two
\* replies.
SearchedAgain ==
    { PlayedOut(createInitialState("game", "White", "Black"), TwoRepliesLine, 1) }

SearchAgainInit == Unsearched(SearchedAgain)

\* What the call of findBestMove that has returned was asked and what it
\* found: the move it returned and the score of that move.
Found ==
    [ position |-> gameState, maxDepth |-> ai.maxDepth,
      move |-> ai.result, score |-> ai.bestScore ]

\* findBestMove has returned and is called again, for the same position or
\* for another one.  ChessAI.transpositionTable is a static field and keeps
\* its entries.
CalledAgain(position) ==
    /\ ai.pc = "returned"
    /\ Len(search.calls) < MaxCalls - 1
    /\ search' = [search EXCEPT !.calls = Append(@, Found), !.returned = NoReturn]
    /\ gameState' = position
    /\ ai' = AIIdle
    /\ UNCHANGED << heapVars, ttVars, appVars >>

\* findBestMove is called: the first call searches to SearchMaxDepth, a
\* later one to that depth or one deeper.
FindBestMoveAgain(maxDepth) ==
    /\ search.calls = << >> => maxDepth = SearchMaxDepth
    /\ FindBestMove(maxDepth, SearchTimeLimit)

SearchAgainNext ==
    \/ \E maxDepth \in SearchMaxDepth..(SearchMaxDepth + 1) :
          FindBestMoveAgain(maxDepth)
    \/ \E position \in SearchedAgain : CalledAgain(position)
    \/ IterativeDeepening
    \/ SearchWithTimeout
    \/ SearchBreak
    \/ MinimaxCalled
    \/ MinimaxStep
    \/ MinimaxReturned

SpecSearchAgain == SearchAgainInit /\ [][SearchAgainNext]_vars

----------------------------------------------------------------------------
(* Strings.  A string of the program is the sequence of its characters,    *)
(* so that concatenation, prefixes and joins are computed as the program   *)
(* computes them.                                                          *)

\* String.fromCharCode(97 + x)
fileLetter(x) == << "a", "b", "c", "d", "e", "f", "g", "h" >>[x + 1]

Digit(n) == << "0", "1", "2", "3", "4", "5", "6", "7", "8", "9" >>[n + 1]

RECURSIVE toString(_)
\* Number.toString of a natural number
toString(n) ==
    IF n < 10 THEN << Digit(n) >> ELSE toString(n \div 10) \o << Digit(n % 10) >>

\* ChessRenderer.positionToNotation
positionToNotation(position) ==
    << fileLetter(position.x) >> \o toString(8 - position.y)

RECURSIVE join(_, _, _)
\* Array.join of the strings[i], strings[i + 1], ...
join(strings, separator, i) ==
    IF i > Len(strings) THEN << >>
    ELSE IF i = Len(strings) THEN strings[i]
    ELSE strings[i] \o separator \o join(strings, separator, i + 1)

\* String.startsWith
startsWith(string, searchString) == IsPrefix(searchString, string)

RECURSIVE trim(_)
\* String.trim
trim(string) ==
    IF string = << >> THEN string
    ELSE IF Head(string) = " " THEN trim(Tail(string))
    ELSE IF string[Len(string)] = " "
    THEN trim(SubSeq(string, 1, Len(string) - 1))
    ELSE string

\* The record has the field, as an object has a property that was set.
Has(record, name) == name \in DOMAIN record

----------------------------------------------------------------------------
(* The opening book (OpeningBook.ts).  Where the book draws a random       *)
(* number, the operator gives the set of the moves it may return.          *)

MAX_OPENING_MOVES == 20
MAX_DEVELOPED_PIECES == 6
PIECE_DEVELOPMENT_BONUS == 30
CENTER_CONTROL_BONUS == 20
CASTLING_BONUS == 25
CENTRAL_PAWN_BONUS == 15
PIECE_REPETITION_PENALTY == 10
RANDOM_BOOK_MOVES == 2

CENTER_SQUARES == { Pos(3, 3), Pos(3, 4), Pos(4, 3), Pos(4, 4) }

\* The openings in the order of Object.entries, each with its key and its
\* responses; the names, the evaluations and the coordinate moves, which
\* nothing reads, are left out.
OPENINGS ==
    <<
       [key |-> << "e", "4" >>,
        responses |-> <<
             [move |-> << "e", "5" >>,
              nextMoves |-> << << "N", "f", "3" >>, << "B", "c", "4" >>, << "d", "3" >> >>],
             [move |-> << "c", "5" >>,
              nextMoves |-> << << "N", "f", "3" >>, << "d", "3" >>, << "B", "b", "5", "+" >> >>],
             [move |-> << "e", "6" >>,
              nextMoves |-> << << "d", "4" >>, << "N", "f", "3" >>, << "N", "c", "3" >> >>],
             [move |-> << "c", "6" >>,
              nextMoves |-> << << "d", "4" >>, << "N", "c", "3" >>, << "N", "f", "3" >> >>] >>],
       [key |-> << "d", "4" >>,
        responses |-> <<
             [move |-> << "d", "5" >>,
              nextMoves |-> << << "c", "4" >>, << "N", "f", "3" >>, << "B", "g", "5" >> >>],
             [move |-> << "N", "f", "6" >>,
              nextMoves |-> << << "c", "4" >>, << "N", "f", "3" >>, << "B", "g", "5" >> >>],
             [move |-> << "f", "5" >>,
              nextMoves |-> << << "c", "4" >>, << "N", "f", "3" >>, << "g", "3" >> >>] >>],
       [key |-> << "c", "4" >>,
        responses |-> <<
             [move |-> << "e", "5" >>,
              nextMoves |-> << << "N", "c", "3" >>, << "g", "3" >>, << "N", "f", "3" >> >>],
             [move |-> << "N", "f", "6" >>,
              nextMoves |-> << << "N", "c", "3" >>, << "d", "4" >>, << "N", "f", "3" >> >>],
             [move |-> << "c", "5" >>,
              nextMoves |-> << << "N", "c", "3" >>, << "g", "3" >>, << "N", "f", "3" >> >>] >>],
       [key |-> << "e", "4", "-", "e", "5", "-", "N", "f", "3", "-", "N", "c", "6", "-", "B", "b", "5" >>,
        responses |-> <<
             [move |-> << "a", "6" >>,
              nextMoves |-> << << "B", "a", "4" >>, << "B", "x", "c", "6" >>, << "B", "c", "4" >> >>],
             [move |-> << "f", "5" >>,
              nextMoves |-> << << "d", "3" >>, << "N", "c", "3" >>, << "e", "x", "f", "5" >> >>],
             [move |-> << "N", "f", "6" >>,
              nextMoves |-> << << "O", "-", "O" >>, << "d", "3" >>, << "R", "e", "1" >> >>] >>],
       [key |-> << "e", "4", "-", "e", "5", "-", "N", "f", "3", "-", "N", "c", "6", "-", "B", "c", "4" >>,
        responses |-> <<
             [move |-> << "B", "c", "5" >>,
              nextMoves |-> << << "d", "3" >>, << "c", "3" >>, << "O", "-", "O" >> >>],
             [move |-> << "f", "5" >>,
              nextMoves |-> << << "d", "3" >>, << "N", "g", "5" >>, << "Q", "h", "5", "+" >> >>],
             [move |-> << "B", "e", "7" >>,
              nextMoves |-> << << "d", "3" >>, << "O", "-", "O" >>, << "R", "e", "1" >> >>] >>],
       [key |-> << "d", "4", "-", "d", "5", "-", "c", "4" >>,
        responses |-> <<
             [move |-> << "d", "x", "c", "4" >>,
              nextMoves |-> << << "e", "3" >>, << "N", "f", "3" >>, << "B", "x", "c", "4" >> >>],
             [move |-> << "e", "6" >>,
              nextMoves |-> << << "N", "c", "3" >>, << "N", "f", "3" >>, << "B", "g", "5" >> >>],
             [move |-> << "c", "6" >>,
              nextMoves |-> << << "N", "f", "3" >>, << "N", "c", "3" >>, << "e", "3" >> >>] >>] >>

\* What opening.responses[notation] gives: the nextMoves of the response with
\* that key, or << >> where there is none.
nextMovesOf(opening, notation) ==
    LET found == { i \in 1..Len(opening.responses) :
                     opening.responses[i].move = notation }
    IN  IF found = {} THEN << >>
        ELSE opening.responses[CHOOSE i \in found : TRUE].nextMoves

\* OpeningBook.moveToNotation: the notation of the move if it has one, and
\* its two squares otherwise.
moveToNotation(move) ==
    IF Has(move, "notation") /\ move.notation # << >> THEN move.notation
    ELSE positionToNotation(move.from) \o << "-" >>
            \o positionToNotation(move.to)

\* OpeningBook.getMovesFromStart
getMovesFromStart(gs) ==
    [i \in 1..Len(gs.moves) |-> moveToNotation(gs.moves[i])]

\* OpeningBook.isPieceDeveloped
isPieceDeveloped(piece, x, y) ==
    LET isWhite == piece.color = WHITE
        startingRank == IF isWhite THEN 7 ELSE 0
        pawnRank == IF isWhite THEN 6 ELSE 1
    IN  CASE piece.type = PAWN -> y # pawnRank
          [] piece.type = KNIGHT -> ~(y = startingRank /\ (x = 1 \/ x = 6))
          [] piece.type = BISHOP -> ~(y = startingRank /\ (x = 2 \/ x = 5))
          [] piece.type = ROOK -> ~(y = startingRank /\ (x = 0 \/ x = 7))
          [] piece.type = QUEEN -> ~(y = startingRank /\ x = 3)
          [] piece.type = KING -> piece.hasMoved = TRUE
          [] OTHER -> FALSE

\* OpeningBook.countDevelopedPieces
countDevelopedPieces(gs) ==
    Cardinality({ p \in Squares :
        /\ gs.board[p.y][p.x] # Null
        /\ isPieceDeveloped(gs.board[p.y][p.x], p.x, p.y) })

\* OpeningBook.isInOpeningPhase
isInOpeningPhase(gs) ==
    LET totalMoves == Len(gs.moves)
        developedPieces == countDevelopedPieces(gs)
    IN  totalMoves < MAX_OPENING_MOVES /\ developedPieces < MAX_DEVELOPED_PIECES

\* The Move object the book builds from a possible move (its timestamp is
\* left out).
BookMove(gs, pm, notation) ==
    [from |-> pm.from,
     to |-> pm.to,
     piece |-> pm.piece,
     capturedPiece |-> gs.board[pm.to.y][pm.to.x],
     player |-> gs.players[gs.currentPlayer],
     notation |-> notation]

\* OpeningBook.findCastlingMove.  Here and below allMoves is the array
\* ChessGameEngine.getAllPossibleMoves returns for the side to move, which
\* each of the functions asks for itself.
findCastlingMove(gs, side, allMoves) ==
    LET found == { i \in 1..Len(allMoves) :
                     /\ allMoves[i].piece.type = KING
                     /\ Abs(allMoves[i].to.x - allMoves[i].from.x) = 2
                     /\ LET isKingside == allMoves[i].to.x > allMoves[i].from.x
                        IN  \/ side = "kingside" /\ isKingside
                            \/ side = "queenside" /\ ~isKingside }
    IN  IF found = {} THEN Null
        ELSE LET move == allMoves[CHOOSE i \in found : \A j \in found : i <= j]
             IN  [from |-> move.from,
                  to |-> move.to,
                  piece |-> move.piece,
                  capturedPiece |-> Null,
                  isCastling |-> TRUE,
                  player |-> gs.players[gs.currentPlayer],
                  notation |-> IF side = "kingside" THEN << "O", "-", "O" >>
                               ELSE << "O", "-", "O", "-", "O" >>]

\* piece.type.charAt(0).toUpperCase()
FirstLetterUpper(type) ==
    CASE type = ROOK -> "R"
      [] type = KNIGHT -> "K"
      [] type = BISHOP -> "B"
      [] type = QUEEN -> "Q"
      [] type = KING -> "K"
      [] type = PAWN -> "P"

\* OpeningBook.generateAlgebraicNotation
generateAlgebraicNotation(gs, from, to, piece) ==
    LET pieceSymbol == IF piece.type = PAWN THEN << >>
                       ELSE << FirstLetterUpper(piece.type) >>
        toSquare == << fileLetter(to.x) >> \o toString(8 - to.y)
        isCapture == gs.board[to.y][to.x] # Null
    IN  IF piece.type = PAWN /\ isCapture
        THEN << fileLetter(from.x), "x" >> \o toSquare
        ELSE pieceSymbol \o (IF isCapture THEN << "x" >> ELSE << >>) \o toSquare

\* OpeningBook.normalizeNotation
normalizeNotation(notation) ==
    trim(SelectSeq(notation, LAMBDA c : c \notin { "+", "#" }))

\* OpeningBook.convertNotationToMove
convertNotationToMove(gs, notation, allMoves) ==
    IF notation = << >> THEN Null
    ELSE IF notation \in { << "O", "-", "O" >>, << "0", "-", "0" >> }
    THEN findCastlingMove(gs, "kingside", allMoves)
    ELSE IF notation \in { << "O", "-", "O", "-", "O" >>,
                           << "0", "-", "0", "-", "0" >> }
    THEN findCastlingMove(gs, "queenside", allMoves)
    ELSE LET moves == [i \in 1..Len(allMoves) |->
                         BookMove(gs, allMoves[i],
                             generateAlgebraicNotation(gs, allMoves[i].from,
                                 allMoves[i].to, allMoves[i].piece))]
             found == { i \in 1..Len(moves) :
                          \/ moves[i].notation = notation
                          \/ normalizeNotation(moves[i].notation)
                               = normalizeNotation(notation) }
         IN  IF found = {} THEN Null
             ELSE moves[CHOOSE i \in found : \A j \in found : i <= j]

\* OpeningBook.selectMoveFromOpening
selectMoveFromOpening(gs, opening, allMoves) ==
    LET lastMoveNotation ==
            IF gs.moves = << >> THEN << >>
            ELSE moveToNotation(gs.moves[Len(gs.moves)])
        nextMoves == nextMovesOf(opening, lastMoveNotation)
    IN  IF nextMoves # << >> /\ nextMoves[1] # << >>
        THEN convertNotationToMove(gs, nextMoves[1], allMoves)
        ELSE Null

\* OpeningBook.findResponse: the notations it may return, none where it
\* returns null.  Math.random picks one of the first RANDOM_BOOK_MOVES.
findResponse(moveSequence, opening) ==
    IF moveSequence = << >> THEN {}
    ELSE LET lastMove == moveSequence[Len(moveSequence)]
             nextMoves == nextMovesOf(opening, lastMove)
             maxMoves == Min(RANDOM_BOOK_MOVES, Len(nextMoves))
         IN  { nextMoves[moveIndex + 1] : moveIndex \in 0..(maxMoves - 1) }
                \ { << >> }

\* OpeningBook.scoreOpeningMove
scoreOpeningMove(gs, move) ==
    LET pieceMoves == Cardinality({ i \in 1..Len(gs.moves) :
                         /\ gs.moves[i].piece.type = move.piece.type
                         /\ gs.moves[i].piece.color = move.piece.color })
    IN  (IF move.piece.type \in { KNIGHT, BISHOP }
         THEN PIECE_DEVELOPMENT_BONUS ELSE 0)
        + (IF move.to \in CENTER_SQUARES THEN CENTER_CONTROL_BONUS ELSE 0)
        + (IF Has(move, "isCastling") /\ move.isCastling THEN CASTLING_BONUS ELSE 0)
        - pieceMoves * PIECE_REPETITION_PENALTY
        + (IF /\ move.piece.type = PAWN
              /\ move.to.x \in { 3, 4 }
              /\ move.to.y \in { 3, 4 }
           THEN CENTRAL_PAWN_BONUS ELSE 0)

\* OpeningBook.getGeneralOpeningMove: the moves it may return (null where
\* there is no possible move).  The sort is stable and by decreasing score,
\* and Math.random picks one of the first three.
getGeneralOpeningMove(gs, allMoves) ==
    LET possible == { allMoves[i] : i \in 1..Len(allMoves) }
        moves == { BookMove(gs, pm, moveToNotation(pm)) : pm \in possible }
        Place(move) == ScanOrder(move) - 4096 * scoreOpeningMove(gs, move)
        scoredMoves == SortedBy(moves, Place)
        topMoveCount == Min(3, Len(scoredMoves))
    IN  IF possible = {} THEN { Null }
        ELSE { scoredMoves[i] : i \in 1..topMoveCount }

\* The openings the loop of getBookMove stops at: the first whose key
\* begins the moves played, or is begun by them, and has a response.
PartialMatches(moveSequence, sequenceKey) ==
    { i \in 1..Len(OPENINGS) :
        /\ \/ startsWith(sequenceKey, OPENINGS[i].key)
           \/ startsWith(OPENINGS[i].key, sequenceKey)
        /\ findResponse(moveSequence, OPENINGS[i]) # {} }

\* OpeningBook.getBookMove, given the possible moves of the side to move.
getBookMoveAmong(gs, allMoves) ==
    LET moveSequence == getMovesFromStart(gs)
        sequenceKey == join(moveSequence, << "-" >>, 1)
        exact == { i \in 1..Len(OPENINGS) : OPENINGS[i].key = sequenceKey }
        partial == PartialMatches(moveSequence, sequenceKey)
    IN  IF exact # {}
        THEN { selectMoveFromOpening(gs, OPENINGS[CHOOSE i \in exact : TRUE],
                                     allMoves) }
        ELSE IF partial # {}
        THEN LET first == CHOOSE i \in partial : \A j \in partial : i <= j
             IN  { convertNotationToMove(gs, response, allMoves) :
                     response \in findResponse(moveSequence, OPENINGS[first]) }
        ELSE getGeneralOpeningMove(gs, allMoves)

\* OpeningBook.getBookMove: the moves it may return, null (Null) among them.
getBookMove(gs) == getBookMoveAmong(gs, possibleMoves(gs, gs.currentPlayer))

----------------------------------------------------------------------------
(* ChessAIManager.  findBestMove runs from its first statement to its      *)
(* return without giving way to other code, and is one step.  The search   *)
(* it calls is followed in the specifications above; here ChessAI's        *)
(* findBestMove answers with any of the moves it orders or with null, or   *)
(* throws.  The times and the evaluation of the statistics are left out.   *)

\* ChessAIManager.mapDifficulty
mapDifficulty(config) ==
    CASE config.difficulty = BEGINNER -> "easy"
      [] config.difficulty = INTERMEDIATE -> "medium"
      [] config.difficulty = ADVANCED -> "hard"
      [] config.difficulty \in { EXPERT, MASTER } -> "expert"
      [] OTHER -> "medium"

\* ChessAI.getDifficultySettings (the randomness, which nothing reads, is
\* left out)
getDifficultySettings(difficulty) ==
    CASE difficulty = "easy" -> [depth |-> 2, timeLimit |-> 1000]
      [] difficulty = "medium" -> [depth |-> 3, timeLimit |-> 2000]
      [] difficulty = "hard" -> [depth |-> 4, timeLimit |-> 5000]
      [] difficulty = "expert" -> [depth |-> 6, timeLimit |-> 10000]
      [] OTHER -> [depth |-> 4, timeLimit |-> 5000]

\* getFallbackMove giving up without looking for a move.
getFallbackMove_NoMove(gs) == { Null }

\* ChessAIManager.getFallbackMove: the moves it may return (Math.random
\* picks one of the possible moves), null where there is none.
getFallbackMove(gs) ==
    LET possible == getAllPossibleMoves(gs, gs.currentPlayer)
    IN  IF possible = {} THEN { Null }
        ELSE { [from |-> randomMove.from,
                to |-> randomMove.to,
                piece |-> randomMove.piece,
                player |-> gs.players[gs.currentPlayer],
                notation |-> << "f", "a", "l", "l", "b", "a", "c", "k" >>] :
               randomMove \in possible }

\* What ChessAI.findBestMove may return for gs: null, or one of the moves.
SearchAnswers(gs) ==
    LET moves == getAllValidMoves(gs, gs.currentPlayer)
    IN  { Null } \cup { moves[i] : i \in 1..Len(moves) }

\* findBestMove without the return that follows a move of the book.
managerFindBestMove_SearchesAnyway(m, gs, bookMove, threw, found, fallback) ==
    LET stats == createEmptyStats
        phase == IF m.config.useOpeningBook
                 THEN << ManagerCall("OpeningBook.isInOpeningPhase", 0, 0, FALSE, Null) >>
                 ELSE << >>
        asked == m.config.useOpeningBook /\ isInOpeningPhase(gs)
        book == IF asked
                THEN << ManagerCall("OpeningBook.getBookMove", 0, 0, FALSE, bookMove) >>
                ELSE << >>
        difficultySettings == getDifficultySettings(mapDifficulty(m.config))
        searched ==
            ManagerCall("ChessAI.findBestMove",
                        Min(m.config.maxDepth, difficultySettings.depth),
                        Min(m.config.maxThinkTime, difficultySettings.timeLimit),
                        threw, IF threw THEN Null ELSE found)
    IN  IF threw
        THEN [m EXCEPT !.stats = stats,
                       !.answer = ManagerAnswer(
                           phase \o book \o
                             << searched,
                                ManagerCall("getFallbackMove", 0, 0, FALSE, fallback) >>,
                           fallback, stats, FALSE)]
        ELSE [m EXCEPT !.stats = stats,
                       !.answer = ManagerAnswer(phase \o book \o << searched >>,
                                                found, stats, FALSE)]

\* ChessAIManager.findBestMove: the manager after the call.  bookMove is
\* what the book returns if it is asked, threw says that the search throws,
\* found is what it returns otherwise, and fallback is what getFallbackMove
\* returns if it is called.
managerFindBestMove(m, gs, bookMove, threw, found, fallback) ==
    LET stats == createEmptyStats
        phase == IF m.config.useOpeningBook
                 THEN << ManagerCall("OpeningBook.isInOpeningPhase", 0, 0, FALSE, Null) >>
                 ELSE << >>
        asked == m.config.useOpeningBook /\ isInOpeningPhase(gs)
        book == IF asked
                THEN << ManagerCall("OpeningBook.getBookMove", 0, 0, FALSE, bookMove) >>
                ELSE << >>
        difficultySettings == getDifficultySettings(mapDifficulty(m.config))
        searched ==
            ManagerCall("ChessAI.findBestMove",
                        Min(m.config.maxDepth, difficultySettings.depth),
                        Min(m.config.maxThinkTime, difficultySettings.timeLimit),
                        threw, IF threw THEN Null ELSE found)
    IN  IF asked /\ bookMove # Null
        THEN LET hit == [stats EXCEPT !.openingBookHits = 1]
             IN  [m EXCEPT !.stats = hit,
                           !.answer = ManagerAnswer(phase \o book, bookMove, hit, FALSE)]
        ELSE IF threw
        THEN [m EXCEPT !.stats = stats,
                       !.answer = ManagerAnswer(
                           phase \o book \o
                             << searched,
                                ManagerCall("getFallbackMove", 0, 0, FALSE, fallback) >>,
                           fallback, stats, FALSE)]
        ELSE [m EXCEPT !.stats = stats,
                       !.answer = ManagerAnswer(phase \o book \o << searched >>,
                                                found, stats, FALSE)]

\* The constructor
NewManager(difficulty) ==
    /\ manager' = ChessAIManager(difficulty)
    /\ UNCHANGED << gameState, ttVars, ai, heapVars, search, gsm, clipboard,
                 session, gateway >>

\* ChessAIManager.updateConfig, given the use of the opening book
UpdateConfig(newConfig) ==
    /\ manager' = [manager EXCEPT
                     !.config = [f \in DOMAIN manager.config |->
                                    IF f \in DOMAIN newConfig THEN newConfig[f]
                                    ELSE manager.config[f]]]
    /\ UNCHANGED << gameState, ttVars, ai, heapVars, search, gsm, clipboard,
                 session, gateway >>

\* ChessAIManager.reset
ManagerReset ==
    /\ manager' = [manager EXCEPT !.stats = createEmptyStats]
    /\ UNCHANGED << gameState, ttVars, ai, heapVars, search, gsm, clipboard,
                 session, gateway >>

\* ChessAIManager.findBestMove(gameState).  Two calls do not overlap: the
\* second begins after the first has returned its promise.
ManagerFindBestMove ==
    /\ manager.answer = NoAnswer
    /\ LET bookMoves == IF manager.config.useOpeningBook
                           /\ isInOpeningPhase(gameState)
                        THEN getBookMove(gameState) ELSE { Null }
           searchAnswers == SearchAnswers(gameState)
           fallbackMoves == getFallbackMove(gameState)
       IN  \E bookMove \in bookMoves, threw \in BOOLEAN,
              found \in searchAnswers, fallback \in fallbackMoves :
                manager' = managerFindBestMove(manager, gameState, bookMove,
                                               threw, found, fallback)
    /\ UNCHANGED << gameState, ttVars, ai, heapVars, search, gsm, clipboard,
                 session, gateway >>

\* The caller takes the answer of the promise.
ManagerAnswered ==
    /\ manager.answer # NoAnswer
    /\ manager' = [manager EXCEPT !.answer = NoAnswer]
    /\ UNCHANGED << gameState, ttVars, ai, heapVars, search, gsm, clipboard,
                 session, gateway >>

\* The positions the manager is asked about: the initial position, the
\* position after e2e4, one with six pieces developed, one where the side to
\* move is in check, and a checkmate.
ManagerPositions ==
    { PlayedOut(createInitialState("game", "White", "Black"), line, 1) :
        line \in { << >>, Upto(CastleKingSideLine, 1),
                   Upto(CastleOutOfCheckLine, 6), TwoRepliesLine,
                   FoolsMateLine } }

ManagerInit ==
    /\ gameState \in ManagerPositions
    /\ tt = TranspositionTable(1000000)
    /\ now = 0
    /\ seen = 0
    /\ ttReturned = NoCall
    /\ ai = AIIdle
    /\ HeapIdle
    /\ ExtIdle

ManagerNext ==
    \/ \E difficulty \in AIDifficulty : NewManager(difficulty)
    \/ \E useOpeningBook \in BOOLEAN :
          UpdateConfig([useOpeningBook |-> useOpeningBook])
    \/ ManagerReset
    \/ ManagerFindBestMove
    \/ ManagerAnswered

SpecManager == ManagerInit /\ [][ManagerNext]_vars

----------------------------------------------------------------------------
(* GameStateManager: the game state it holds, its listeners in the order   *)
(* of the array, and the events its last call delivered, each with the     *)
(* listener that received it.  A listener is a function of the caller: it  *)
(* is known by its name, and what it does with an event is not followed.   *)

Listeners == { "first", "second" }

\* The length the array of the listeners is followed to.
MaxListeners == 2

\* A GameStateChangeEvent; where it has no move or no result the field is
\* Null.
GameStateChangeEvent(type, gs, move, result) ==
    [type |-> type, gameState |-> gs, move |-> move, result |-> result]

\* ChessGameEngine.evaluateGameResult (the reason, a text made of the other
\* fields, and the final position, which is the state itself, are left out)
evaluateGameResult(gs) ==
    IF ~gs.isGameOver THEN Null
    ELSE IF gs.isCheckmate THEN [status |-> "checkmate", winner |-> gs.winner]
    ELSE IF gs.isStalemate THEN [status |-> "stalemate", winner |-> Undefined]
    ELSE [status |-> "draw", winner |-> Undefined]

\* GameStateManager.emitEvent: the deliveries, one for each element of the
\* array and in its order.
emitEvent(eventListeners, event) ==
    [i \in 1..Len(eventListeners) |->
        [listener |-> eventListeners[i], event |-> event]]

\* GameStateManager.addEventListener
addEventListener(g, listener) ==
    [g EXCEPT !.eventListeners = Append(@, listener),
              !.delivered = << >>,
              !.removed = @ \ { listener },
              !.called = GsmCalled("addEventListener", Null, Null, FALSE)]

\* Array.indexOf, from 1, and 0 where the element is not found
indexOf(array, element) ==
    LET found == { i \in 1..Len(array) : array[i] = element }
    IN  IF found = {} THEN 0 ELSE CHOOSE i \in found : \A j \in found : i <= j

\* Array.splice(index, 1)
splice(array, index) ==
    SubSeq(array, 1, index - 1) \o SubSeq(array, index + 1, Len(array))

\* GameStateManager.removeEventListener
removeEventListener(g, listener) ==
    LET index == indexOf(g.eventListeners, listener)
    IN  [g EXCEPT !.eventListeners = IF index > 0 THEN splice(@, index) ELSE @,
                  !.delivered = << >>,
                  !.removed = @ \cup { listener },
                  !.called = GsmCalled("removeEventListener", Null, Null, FALSE)]

\* GameStateManager.makeMove without the return for a game that is over.
gsmMakeMove_PlaysOn(g, from, to) ==
    IF ~isValidMove(g.gameState, from, to)
    THEN [g EXCEPT !.delivered = << >>,
                   !.called = GsmCalled("makeMove", from, to, FALSE)]
    ELSE LET previousState == g.gameState
             newState == makeMove(previousState, from, to)
             move == newState.moves[Len(newState.moves)]
             moved == emitEvent(g.eventListeners,
                          GameStateChangeEvent("move", newState, move, Null))
             result == evaluateGameResult(newState)
             ended == IF newState.isGameOver /\ ~previousState.isGameOver
                         /\ result # Null
                      THEN emitEvent(g.eventListeners,
                               GameStateChangeEvent("gameEnd", newState, Null, result))
                      ELSE << >>
         IN  [g EXCEPT !.gameState = newState,
                       !.delivered = moved \o ended,
                       !.called = GsmCalled("makeMove", from, to, TRUE)]

\* GameStateManager.makeMove without the call of isValidMove.
gsmMakeMove_NotValidated(g, from, to) ==
    IF g.gameState.isGameOver
    THEN [g EXCEPT !.delivered = << >>,
                   !.called = GsmCalled("makeMove", from, to, FALSE)]
    ELSE LET previousState == g.gameState
             newState == makeMove(previousState, from, to)
             move == newState.moves[Len(newState.moves)]
             moved == emitEvent(g.eventListeners,
                          GameStateChangeEvent("move", newState, move, Null))
             result == evaluateGameResult(newState)
             ended == IF newState.isGameOver /\ ~previousState.isGameOver
                         /\ result # Null
                      THEN emitEvent(g.eventListeners,
                               GameStateChangeEvent("gameEnd", newState, Null, result))
                      ELSE << >>
         IN  [g EXCEPT !.gameState = newState,
                       !.delivered = moved \o ended,
                       !.called = GsmCalled("makeMove", from, to, TRUE)]

\* GameStateManager.makeMove
gsmMakeMove(g, from, to) ==
    IF g.gameState.isGameOver
    THEN [g EXCEPT !.delivered = << >>,
                   !.called = GsmCalled("makeMove", from, to, FALSE)]
    ELSE IF ~isValidMove(g.gameState, from, to)
    THEN [g EXCEPT !.delivered = << >>,
                   !.called = GsmCalled("makeMove", from, to, FALSE)]
    ELSE LET previousState == g.gameState
             newState == makeMove(previousState, from, to)
             move == newState.moves[Len(newState.moves)]
             moved == emitEvent(g.eventListeners,
                          GameStateChangeEvent("move", newState, move, Null))
             result == evaluateGameResult(newState)
             ended == IF newState.isGameOver /\ ~previousState.isGameOver
                         /\ result # Null
                      THEN emitEvent(g.eventListeners,
                               GameStateChangeEvent("gameEnd", newState, Null, result))
                      ELSE << >>
         IN  [g EXCEPT !.gameState = newState,
                       !.delivered = moved \o ended,
                       !.called = GsmCalled("makeMove", from, to, TRUE)]

\* GameStateManager.resetGame
resetGame(g) ==
    LET newState == createInitialState(g.gameState.id, g.gameState.players[WHITE],
                                       g.gameState.players[BLACK])
    IN  [g EXCEPT !.gameState = newState,
                  !.delivered = emitEvent(g.eventListeners,
                                    GameStateChangeEvent("move", newState, Null, Null)),
                  !.called = GsmCalled("resetGame", Null, Null, FALSE)]

\* GameStateManager.loadGameState
loadGameState(g, newState) ==
    [g EXCEPT !.gameState = newState,
              !.delivered = emitEvent(g.eventListeners,
                                GameStateChangeEvent("move", newState, Null, Null)),
              !.called = GsmCalled("loadGameState", Null, Null, FALSE)]

\* GameStateManager.setPlayers
setPlayers(g, white, black) ==
    LET newState == [g.gameState EXCEPT !.players = [white |-> white, black |-> black]]
    IN  [g EXCEPT !.gameState = newState,
                  !.delivered = emitEvent(g.eventListeners,
                                    GameStateChangeEvent("playerJoin", newState, Null, Null)),
                  !.called = GsmCalled("setPlayers", Null, Null, FALSE)]

----------------------------------------------------------------------------
(* The export of the move history to the clipboard (SimpleChessApp).       *)

\* getMoveNotation
getMoveNotation(move) ==
    LET fromSquare == positionToNotation(move.from)
        toSquare == positionToNotation(move.to)
        piece == move.piece
        prefix == CASE piece.type = KING -> << "K" >>
                    [] piece.type = QUEEN -> << "Q" >>
                    [] piece.type = ROOK -> << "R" >>
                    [] piece.type = BISHOP -> << "B" >>
                    [] piece.type = KNIGHT -> << "N" >>
                    [] OTHER -> << >>
        capture == IF Has(move, "capturedPiece") /\ move.capturedPiece # Null
                   THEN (IF piece.type = PAWN THEN << fromSquare[1] >> ELSE << >>)
                           \o << "x" >>
                   ELSE << >>
        promotedTo == IF Has(move, "promotedTo") THEN move.promotedTo
                      ELSE Undefined
        promotion == CASE promotedTo = QUEEN -> << "=", "Q" >>
                       [] promotedTo = ROOK -> << "=", "R" >>
                       [] promotedTo = BISHOP -> << "=", "B" >>
                       [] promotedTo = KNIGHT -> << "=", "N" >>
                       [] OTHER -> << >>
        notation == IF Has(move, "isCastling") /\ move.isCastling
                    THEN (IF move.to.x > move.from.x THEN << "O", "-", "O" >>
                          ELSE << "O", "-", "O", "-", "O" >>)
                    ELSE prefix \o capture \o toSquare \o promotion
    IN  IF Has(move, "notation") /\ move.notation # << >> THEN move.notation
        ELSE IF piece = Null THEN fromSquare \o << "-" >> \o toSquare
        ELSE notation

\* copyMovesToClipboard: the text written to the clipboard.
copyMovesToClipboard(moves) ==
    LET pieces == [i \in 1..Len(moves) |->
                     LET index == i - 1
                         moveNumber == index \div 2 + 1
                         isWhite == index % 2 = 0
                         notation == getMoveNotation(moves[i])
                     IN  IF isWhite
                         THEN toString(moveNumber) \o << ".", " " >> \o notation
                         ELSE << " " >> \o notation]
        moveText == join(pieces, << >>, 1)
    IN  trim(moveText)

----------------------------------------------------------------------------
(* The game played through the GameStateManager, with listeners added and  *)
(* removed and the history copied to the clipboard at any time.            *)

\* The games played through the manager.
ManagedLines == { FoolsMateLine, Upto(PromotionLine, 5) }

\* The moves asked of the manager besides those of the games: e2e5 (three
\* squares), e2e4 and e7e5.
ProbeMoves == { << 4, 6, 4, 3 >>, << 4, 6, 4, 4 >>, << 4, 1, 4, 3 >> }

\* The moves asked of the manager: the next move of a game, or, during a
\* game, one of the other moves.
Asked(g, from, to) ==
    \/ \E line \in ManagedLines :
          IsPrefix(Append(Played(g.gameState.moves),
                          << from.x, from.y, to.x, to.y >>), line)
    \/ /\ << from.x, from.y, to.x, to.y >> \in ProbeMoves
       /\ \E line \in ManagedLines : IsPrefix(Played(g.gameState.moves), line)

AddEventListener(listener) ==
    /\ Len(gsm.eventListeners) < MaxListeners
    /\ gsm' = addEventListener(gsm, listener)
    /\ UNCHANGED << gameState, ttVars, ai, heapVars, search, manager, clipboard,
                 session, gateway >>

RemoveEventListener(listener) ==
    /\ gsm' = removeEventListener(gsm, listener)
    /\ UNCHANGED << gameState, ttVars, ai, heapVars, search, manager, clipboard,
                 session, gateway >>

ManagedMakeMove(from, to) ==
    /\ Asked(gsm, from, to)
    /\ gsm' = gsmMakeMove(gsm, from, to)
    /\ UNCHANGED << gameState, ttVars, ai, heapVars, search, manager, clipboard,
                 session, gateway >>

ResetGame ==
    /\ gsm' = resetGame(gsm)
    /\ UNCHANGED << gameState, ttVars, ai, heapVars, search, manager, clipboard,
                 session, gateway >>

CopyMovesToClipboard ==
    /\ clipboard' = copyMovesToClipboard(gsm.gameState.moves)
    /\ UNCHANGED << gameState, ttVars, ai, heapVars, search, manager, gsm,
                 session, gateway >>

ManagedNext ==
    \/ \E listener \in Listeners : AddEventListener(listener)
    \/ \E listener \in Listeners : RemoveEventListener(listener)
    \/ \E from \in Squares, to \in Squares : ManagedMakeMove(from, to)
    \/ ResetGame

SpecManaged == Init /\ [][ManagedNext]_vars

\* The states loaded into the manager: the initial position, a game that
\* was ended from outside in the initial position (isGameOver is set and
\* moves remain), and the position after the fool's mate.
LoadedStates ==
    { createInitialState("game", "White", "Black"),
      [createInitialState("game", "White", "Black") EXCEPT !.isGameOver = TRUE],
      PlayedOut(createInitialState("game", "White", "Black"), FoolsMateLine, 1) }

LoadGameState(newState) ==
    /\ gsm' = loadGameState(gsm, newState)
    /\ UNCHANGED << gameState, ttVars, ai, heapVars, search, manager, clipboard,
                 session, gateway >>

SetPlayers(white, black) ==
    /\ gsm' = setPlayers(gsm, white, black)
    /\ UNCHANGED << gameState, ttVars, ai, heapVars, search, manager, clipboard,
                 session, gateway >>

\* A game played through the manager, ended, loaded and reset.
GameOverNext ==
    \/ AddEventListener("first")
    \/ \E from \in Squares, to \in Squares : ManagedMakeMove(from, to)
    \/ ResetGame
    \/ \E newState \in LoadedStates : LoadGameState(newState)
    \/ SetPlayers("Ann", "Bob")

SpecGameOver == Init /\ [][GameOverNext]_vars

\* The history of the manager is copied while a game is played.
ClipboardNext ==
    \/ \E from \in Squares, to \in Squares : ManagedMakeMove(from, to)
    \/ CopyMovesToClipboard

SpecClipboard == Init /\ [][ClipboardNext]_vars

----------------------------------------------------------------------------
(* The notation MoveGenerator gives the moves it generates.  The search    *)
(* does not read it, and the moves it is given above are without it.       *)

\* MoveGenerator.getPieceSymbol
getPieceSymbol(pieceType) ==
    CASE pieceType = KING -> << "K" >>
      [] pieceType = QUEEN -> << "Q" >>
      [] pieceType = ROOK -> << "R" >>
      [] pieceType = BISHOP -> << "B" >>
      [] pieceType = KNIGHT -> << "N" >>
      [] pieceType = PAWN -> << >>
      [] OTHER -> << >>

\* MoveGenerator.getSameTypeMoves: the squares of the pieces of the type and
\* colour of piece that can move to target.
getSameTypeMoves(gs, piece, target) ==
    { p \in Squares :
        /\ gs.board[p.y][p.x].type = piece.type
        /\ gs.board[p.y][p.x].color = piece.color
        /\ target \in getValidMoves(gs, p) }

\* MoveGenerator.generateNotation
generateNotation(gs, piece, from, to, capturedPiece) ==
    LET symbol == IF piece.type # PAWN THEN getPieceSymbol(piece.type) ELSE << >>
        sameTypeMoves == getSameTypeMoves(gs, piece, to)
        sameFileMoves == { pos \in sameTypeMoves : pos.x = from.x }
        sameRankMoves == { pos \in sameTypeMoves : pos.y = from.y }
        disambiguation ==
            IF Cardinality(sameTypeMoves) > 1
            THEN IF Cardinality(sameFileMoves) = 1 THEN << fileLetter(from.x) >>
                 ELSE IF Cardinality(sameRankMoves) = 1 THEN toString(8 - from.y)
                 ELSE << fileLetter(from.x) >> \o toString(8 - from.y)
            ELSE << >>
        capture ==
            IF capturedPiece # Null
            THEN (IF piece.type = PAWN THEN << fileLetter(from.x) >> ELSE << >>)
                    \o << "x" >>
            ELSE << >>
    IN  IF piece.type = KING /\ Abs(to.x - from.x) = 2
        THEN (IF to.x > from.x THEN << "O", "-", "O" >>
              ELSE << "O", "-", "O", "-", "O" >>)
        ELSE symbol \o disambiguation \o capture
                \o << fileLetter(to.x) >> \o toString(8 - to.y)

\* The notations of the records MoveGenerator.getAllValidMoves pushes for
\* one possible move, in the order of MovesFor.
notationsFor(gs, possibleMove) ==
    LET capturedPiece == gs.board[possibleMove.to.y][possibleMove.to.x]
        notation == generateNotation(gs, possibleMove.piece, possibleMove.from,
                                     possibleMove.to, capturedPiece)
    IN  IF /\ possibleMove.piece.type = PAWN
           /\ \/ possibleMove.piece.color = WHITE /\ possibleMove.to.y = 0
              \/ possibleMove.piece.color = BLACK /\ possibleMove.to.y = 7
        THEN [k \in 1..4 |->
                notation \o << "=" >> \o getPieceSymbol(promotionTypes[k])]
        ELSE IF /\ possibleMove.piece.type = KING
                /\ Abs(possibleMove.to.x - possibleMove.from.x) = 2
        THEN << IF possibleMove.to.x > possibleMove.from.x
                THEN << "O", "-", "O" >>
                ELSE << "O", "-", "O", "-", "O" >> >>
        ELSE << notation >>

\* The record with its notation.
Notated(move, notation) ==
    [f \in DOMAIN move \cup { "notation" } |->
        IF f = "notation" THEN notation ELSE move[f]]

\* The records MoveGenerator.getAllValidMoves pushes for one possible move,
\* with their notations.
NotatedMovesFor(gs, possibleMove) ==
    LET moves == MovesFor(gs, possibleMove)
        notations == notationsFor(gs, possibleMove)
    IN  [k \in 1..Len(moves) |-> Notated(moves[k], notations[k])]

\* MoveGenerator.getAllValidMoves, the notations included
getAllValidMovesNotated(gs, color) ==
    LET possible == possibleMoves(gs, color)
    IN  Flatten([i \in 1..Len(possible) |-> NotatedMovesFor(gs, possible[i])], 1)

----------------------------------------------------------------------------
(* The game session (SimpleChessApp).  The component holds React state; a  *)
(* handler sets state and the render for it, with its effects, comes       *)
(* before anything else happens.  A function made in a render keeps the    *)
(* state of that render: the listener registered on the manager, the       *)
(* makeAIMove it gives to setTimeout and the callback that applies the     *)
(* answer of ai.findBestMove read what was state when they were made.  The *)
(* human and the computer play the moves of SessionMoves, and ai answers   *)
(* with any of them that is valid in the position it was given.            *)

\* e2e4, d2d4, e7e5, d7d5
SessionMoves ==
    { << 4, 6, 4, 4 >>, << 3, 6, 3, 4 >>, << 4, 1, 4, 3 >>, << 3, 1, 3, 3 >> }

\* The calls of ai.findBestMove and the timeouts pending at one time.
MaxPromises == 1
MaxTimeouts == 2

\* The moves of SessionMoves that are valid in a position.
SessionValid(gs) ==
    { m \in SessionMoves : isValidMove(gs, Pos(m[1], m[2]), Pos(m[3], m[4])) }

\* A callback given to setTimeout, with the state of the render it was
\* made in and, for the callback of the AI effect, the answer of
\* ai.findBestMove and the position it was asked for.
Timeout(callback, playerSide, gameStarted, gameResult, aiMove, computedFor) ==
    [callback |-> callback, playerSide |-> playerSide,
     gameStarted |-> gameStarted, gameResult |-> gameResult,
     aiMove |-> aiMove, computedFor |-> computedFor]

\* handleStateChange, the listener of the listener effect (lines 870 to
\* 908), called with an event; gs is what getCurrentState returns.  It sets
\* state in every case (the suggestions and the clock).
handleStateChange(s, event, gs) ==
    LET made == s.listener
        shown == [s EXCEPT !.dirty = TRUE]
    IN  IF event.type = "gameEnd" /\ event.result # Null
        THEN [shown EXCEPT !.gameResult = event.result]
        ELSE IF /\ ~gs.isGameOver
                /\ made.gameStarted
                /\ made.playerSide # NoSide
                /\ gs.currentPlayer # made.playerSide
        THEN [shown EXCEPT !.timeouts =
                 Append(@, Timeout("makeAIMove", made.playerSide,
                                   made.gameStarted, Null, << >>, << >>))]
        ELSE shown

\* The events a call of the manager delivered, handled one after the other.
RECURSIVE Delivered(_, _, _, _)
Delivered(s, delivered, i, gs) ==
    IF i > Len(delivered) THEN s
    ELSE Delivered(handleStateChange(s, delivered[i].event, gs), delivered,
                   i + 1, gs)

\* The session after a call of the manager that left it as g.
AfterCall(s, g) == Delivered(s, g.delivered, 1, g.gameState)

\* The bounds on what is pending.
SessionBounded(s) ==
    /\ Len(s.promises) <= MaxPromises
    /\ Len(s.timeouts) <= MaxTimeouts

\* The listener effect (lines 867 to 916) when playerSide or gameStarted
\* have changed: its cleanup removes the listener of the last run, and it
\* registers the handleStateChange of this render once the game is started.
ListenerEffect(s, g) ==
    IF s.playerSide = s.listener.playerSide
       /\ s.gameStarted = s.listener.gameStarted
    THEN [s |-> s, g |-> g]
    ELSE LET cleaned == IF s.listener.registered
                        THEN removeEventListener(g, "handleStateChange")
                        ELSE g
         IN  [s |-> [s EXCEPT !.listener =
                        [registered |-> s.gameStarted,
                         playerSide |-> s.playerSide,
                         gameStarted |-> s.gameStarted]],
              g |-> IF s.gameStarted
                    THEN addEventListener(cleaned, "handleStateChange")
                    ELSE cleaned]

\* The dependencies of the effect of the AI moves (line 982).
AIDeps(s, g) ==
    [moves |-> Len(g.gameState.moves), gameStarted |-> s.gameStarted,
     playerSide |-> s.playerSide, gameResult |-> s.gameResult,
     aiIsThinking |-> s.aiIsThinking]

\* The effect of the AI moves (lines 949 to 982) when one of its
\* dependencies has changed: on the computer's turn it sets aiIsThinking and
\* calls ai.findBestMove with the state of the game at that time.
AIEffect(s, g) ==
    LET ran == [s EXCEPT !.aiDeps = AIDeps(s, g), !.dirty = FALSE]
    IN  IF AIDeps(s, g) = s.aiDeps THEN [s EXCEPT !.dirty = FALSE]
        ELSE IF \/ ~s.gameStarted
                \/ s.playerSide = NoSide
                \/ s.gameResult # Null
                \/ s.aiIsThinking
        THEN ran
        ELSE IF g.gameState.currentPlayer # s.playerSide
        THEN [ran EXCEPT
                 !.aiIsThinking = TRUE,
                 !.dirty = TRUE,
                 !.promises =
                    Append(@, [gameState |-> g.gameState,
                               gameStarted |-> s.gameStarted,
                               gameResult |-> s.gameResult])]
        ELSE ran

SessionUnchanged ==
    UNCHANGED << gameState, ttVars, ai, heapVars, search, manager, clipboard,
                 gateway >>

\* The component renders and its effects run.
Render ==
    /\ session.dirty
    /\ LET listened == ListenerEffect([session EXCEPT !.applied = NoMove], gsm)
       IN  /\ session' = AIEffect(listened.s, listened.g)
           /\ gsm' = listened.g
    /\ SessionBounded(session')
    /\ SessionUnchanged

\* The human chooses a side before the game.
SelectSide(side) ==
    /\ ~session.dirty
    /\ ~session.gameStarted
    /\ side # session.selectedSide
    /\ session' = [session EXCEPT !.selectedSide = side, !.dirty = TRUE,
                                  !.applied = NoMove]
    /\ UNCHANGED gsm
    /\ SessionUnchanged

\* startGame (lines 989 to 998)
StartGame ==
    /\ ~session.dirty
    /\ ~session.gameStarted
    /\ session' = [session EXCEPT !.playerSide = session.selectedSide,
                                  !.gameStarted = TRUE, !.dirty = TRUE,
                                  !.applied = NoMove]
    /\ UNCHANGED gsm
    /\ SessionUnchanged

\* handleMove (lines 1006 to 1011) for a move of the human's own pieces in
\* the human's turn.
HandleMove(from, to) ==
    /\ ~session.dirty
    /\ session.gameStarted
    /\ gsm.gameState.currentPlayer = session.playerSide
    /\ gsm.gameState.board[from.y][from.x].color = session.playerSide
    /\ gsm' = gsmMakeMove(gsm, from, to)
    /\ gsm'.called.returned
    /\ session' = AfterCall([session EXCEPT !.applied = NoMove,
                                            !.lastMoveBy = "human"], gsm')
    /\ SessionBounded(session')
    /\ SessionUnchanged

\* resetGame of the component (lines 1029 to 1056): the state is set first,
\* then the manager is reset and delivers its event to the listener that is
\* still registered.
SessionResetGame ==
    /\ ~session.dirty
    /\ gsm' = resetGame(gsm)
    /\ session' = AfterCall([session EXCEPT
                                !.playerSide = NoSide,
                                !.gameStarted = FALSE,
                                !.gameResult = Null,
                                !.selectedSide = WHITE,
                                !.aiIsThinking = FALSE,
                                !.dirty = TRUE,
                                !.applied = NoMove,
                                !.lastMoveBy = "none"], gsm')
    /\ SessionBounded(session')
    /\ SessionUnchanged

\* ai.findBestMove answers one of the calls with a move of the position it
\* was given, and the callback that will apply the move is given to
\* setTimeout (lines 961 to 970).
AIMoveFound(i, aiMove) ==
    /\ ~session.dirty
    /\ i \in 1..Len(session.promises)
    /\ aiMove \in SessionValid(session.promises[i].gameState)
    /\ LET asked == session.promises[i]
       IN  session' = [session EXCEPT
              !.promises = splice(@, i),
              !.timeouts =
                  Append(@, Timeout("applyAIMove", NoSide, asked.gameStarted,
                                    asked.gameResult, aiMove,
                                    Played(asked.gameState.moves))),
              !.dirty = TRUE,
              !.applied = NoMove]
    /\ SessionBounded(session')
    /\ UNCHANGED gsm
    /\ SessionUnchanged

\* The computer has asked the manager for a move and the manager is left
\* as g: where it moved, the move is noted, and the events of the call are
\* handled.
ComputerMoved(s, g, by, computedFor) ==
    LET noted == IF g.called.returned
                 THEN [s EXCEPT
                          !.applied =
                             [by |-> by,
                              mover |-> gsm.gameState.currentPlayer,
                              playerSide |-> session.playerSide,
                              computedFor |-> computedFor,
                              appliedTo |-> Played(gsm.gameState.moves)],
                          !.lastMoveBy = "computer"]
                 ELSE s
    IN  /\ gsm' = g
        /\ session' = AfterCall(noted, g)

\* makeAIMove (lines 827 to 860) up to its move: whether it passes its two
\* returns.  It reads playerSide and gameStarted as they were when it was
\* made, and the state of the game as it is when it runs.
makeAIMove(made, gs) ==
    ~(\/ ~made.gameStarted
      \/ made.playerSide = NoSide
      \/ gs.isGameOver
      \/ gs.currentPlayer = made.playerSide)

\* The callback of the AI effect (lines 965 to 970) up to its move: it reads
\* gameStarted and gameResult as they were when the effect ran.
applyAIMove(made) == made.gameStarted /\ made.gameResult = Null

\* The first of the timeouts runs.  makeAIMove asks the manager for
\* randomMove, one of the valid moves it finds; the callback of the AI
\* effect asks for the move ai.findBestMove answered and sets aiIsThinking.
TimeoutRuns(randomMove) ==
    /\ ~session.dirty
    /\ session.timeouts # << >>
    /\ LET made == session.timeouts[1]
           gs == gsm.gameState
           random == made.callback = "makeAIMove"
           asks == IF random THEN makeAIMove(made, gs) ELSE applyAIMove(made)
           move == IF random THEN randomMove ELSE made.aiMove
           rest == [session EXCEPT
                       !.timeouts = Tail(@),
                       !.applied = NoMove,
                       !.aiIsThinking = IF ~random /\ asks THEN FALSE ELSE @,
                       !.dirty = IF ~random /\ asks THEN TRUE ELSE @]
       IN  /\ IF random /\ asks THEN randomMove \in SessionValid(gs)
              ELSE randomMove = << >>
           /\ IF asks
              THEN ComputerMoved(rest,
                                 gsmMakeMove(gsm, Pos(move[1], move[2]),
                                             Pos(move[3], move[4])),
                                 IF random THEN "makeAIMove" ELSE "findBestMove",
                                 IF random THEN Played(gs.moves)
                                 ELSE made.computedFor)
              ELSE /\ gsm' = gsm
                   /\ session' = rest
    /\ SessionBounded(session')
    /\ SessionUnchanged

SessionNext ==
    \/ Render
    \/ \E side \in { WHITE, BLACK } : SelectSide(side)
    \/ StartGame
    \/ \E m \in SessionMoves : HandleMove(Pos(m[1], m[2]), Pos(m[3], m[4]))
    \/ SessionResetGame
    \/ \E i \in 1..MaxPromises, aiMove \in SessionMoves : AIMoveFound(i, aiMove)
    \/ \E randomMove \in SessionMoves \cup { << >> } : TimeoutRuns(randomMove)

SpecSession == Init /\ [][SessionNext]_vars

----------------------------------------------------------------------------
(* The WebSocket gateway (ChessGateway) with the games of its              *)
(* ChessGameService.  A handler runs from its first statement to its       *)
(* return.  Of a game the players are kept; of what a handler emits, the   *)
(* event and message sent to the client that called it.                    *)

\* The sockets, the ids generateGameId may give, and the names players
\* give.
Clients == { "a", "b", "c" }
GameIds == { "g1", "g2" }
PlayerNames == { "Ann", "Bob" }

\* Map.has
HasKey(map, key) == \E i \in 1..Len(map) : map[i].key = key

Emit(event, message, gameId) ==
    [event |-> event, message |-> message, gameId |-> gameId]

GatewayCalled(op, client, gameId, emitted) ==
    [op |-> op, client |-> client, gameId |-> gameId, emitted |-> emitted]

\* ChessGateway.handleConnection
handleConnection(gw, client) ==
    [gw EXCEPT !.connectedClients = @ \cup { client },
               !.called = GatewayCalled("connection", client, "", NoEmit)]

\* The loop of handleDisconnect over the rooms, from the i-th on.
RECURSIVE LeftRooms(_, _, _)
LeftRooms(rooms, client, i) ==
    IF i > Len(rooms) THEN << >>
    ELSE LET clients == rooms[i].value \ { client }
         IN  IF client \in rooms[i].value /\ clients = {}
             THEN LeftRooms(rooms, client, i + 1)
             ELSE << [key |-> rooms[i].key, value |-> clients] >>
                     \o LeftRooms(rooms, client, i + 1)

\* ChessGateway.handleDisconnect
handleDisconnect(gw, client) ==
    [gw EXCEPT !.connectedClients = @ \ { client },
               !.gameRooms = LeftRooms(@, client, 1),
               !.called = GatewayCalled("disconnect", client, "", NoEmit)]

\* ChessGateway.handleCreateGame, with the id generateGameId gives.
handleCreateGame(gw, client, playerName, gameId) ==
    [gw EXCEPT !.games = MapSet(@, gameId, [white |-> playerName, black |-> ""]),
               !.gameRooms = MapSet(@, gameId, { client }),
               !.called = GatewayCalled("createGame", client, gameId,
                                        Emit("gameCreated", "", gameId))]

\* handleJoinGame without the limit of two clients.
handleJoinGame_NoLimit(gw, client, gameId, playerName) ==
    IF ~HasKey(gw.games, gameId)
    THEN [gw EXCEPT !.called =
             GatewayCalled("joinGame", client, gameId,
                           Emit("gameError", "Game not found", ""))]
    ELSE LET game == MapGet(gw.games, gameId)
             rooms == IF HasKey(gw.gameRooms, gameId) THEN gw.gameRooms
                      ELSE MapSet(gw.gameRooms, gameId, {})
             room == MapGet(rooms, gameId) \cup { client }
         IN  [gw EXCEPT
                 !.gameRooms = MapSet(rooms, gameId, room),
                 !.games = IF Cardinality(room) = 2 /\ game.black = ""
                           THEN MapSet(@, gameId,
                                       [game EXCEPT !.black = playerName])
                           ELSE @,
                 !.called = GatewayCalled("joinGame", client, gameId,
                                          Emit("gameJoined", "", gameId))]

\* ChessGateway.handleJoinGame
handleJoinGame(gw, client, gameId, playerName) ==
    IF ~HasKey(gw.games, gameId)
    THEN [gw EXCEPT !.called =
             GatewayCalled("joinGame", client, gameId,
                           Emit("gameError", "Game not found", ""))]
    ELSE LET game == MapGet(gw.games, gameId)
             rooms == IF HasKey(gw.gameRooms, gameId) THEN gw.gameRooms
                      ELSE MapSet(gw.gameRooms, gameId, {})
             room == MapGet(rooms, gameId) \cup { client }
         IN  IF Cardinality(MapGet(rooms, gameId)) >= 2
             THEN [gw EXCEPT
                      !.gameRooms = rooms,
                      !.called = GatewayCalled("joinGame", client, gameId,
                                     Emit("gameError", "Game is full", ""))]
             ELSE [gw EXCEPT
                      !.gameRooms = MapSet(rooms, gameId, room),
                      !.games = IF Cardinality(room) = 2 /\ game.black = ""
                                THEN MapSet(@, gameId,
                                            [game EXCEPT !.black = playerName])
                                ELSE @,
                      !.called = GatewayCalled("joinGame", client, gameId,
                                               Emit("gameJoined", "", gameId))]

GatewayUnchanged ==
    UNCHANGED << gameState, ttVars, ai, heapVars, search, manager, gsm,
                 clipboard, session >>

\* A socket connects.
HandleConnection(client) ==
    /\ client \notin gateway.connectedClients
    /\ gateway' = handleConnection(gateway, client)
    /\ GatewayUnchanged

\* A connected socket disconnects.
HandleDisconnect(client) ==
    /\ client \in gateway.connectedClients
    /\ gateway' = handleDisconnect(gateway, client)
    /\ GatewayUnchanged

\* A connected socket sends createGame.
HandleCreateGame(client, playerName, gameId) ==
    /\ client \in gateway.connectedClients
    /\ gateway' = handleCreateGame(gateway, client, playerName, gameId)
    /\ GatewayUnchanged

\* A connected socket sends joinGame.
HandleJoinGame(client, gameId, playerName) ==
    /\ client \in gateway.connectedClients
    /\ gateway' = handleJoinGame(gateway, client, gameId, playerName)
    /\ GatewayUnchanged

GatewayNext ==
    \/ \E client \in Clients : HandleConnection(client)
    \/ \E client \in Clients : HandleDisconnect(client)
    \/ \E client \in Clients, playerName \in PlayerNames, gameId \in GameIds :
          HandleCreateGame(client, playerName, gameId)
    \/ \E client \in Clients, gameId \in GameIds, playerName \in PlayerNames :
          HandleJoinGame(client, gameId, playerName)

SpecGateway == Init /\ [][GatewayNext]_vars

----------------------------------------------------------------------------
(* Properties of the rules engine                                          *)

LastMove(gs) == gs.moves[Len(gs.moves)]

\* The state was returned by makeMove.
Returned(gs) == Len(gs.moves) > 0

\* The colour whose move produced the state.
Mover(gs) == LastMove(gs).piece.color

\* The board on which the last move was made, for a move that is not castling.
BoardBefore(gs) ==
    LET m == LastMove(gs)
    IN  [[gs.board EXCEPT ![m.to.y][m.to.x] = m.capturedPiece]
            EXCEPT ![m.from.y][m.from.x] = m.piece]

PiecesOn(board) ==
    { p \in Squares : board[p.y][p.x] # Null }

KingsOf(board, color) ==
    { p \in PiecesOn(board) : board[p.y][p.x].type = KING /\ board[p.y][p.x].color = color }

\* C1: a move accepted by isValidMove and applied by makeMove never leaves
\* the mover's own king in check.
C1_NoSelfCheck ==
    Returned(gameState) => ~isKingInCheck(gameState, Mover(gameState))

\* The mover was in check and answered it.
C1_Witness ==
    /\ Returned(gameState)
    /\ ~LastMove(gameState).isCastling
    /\ isKingInCheck([gameState EXCEPT !.board = BoardBefore(gameState)], Mover(gameState))
    /\ ~isKingInCheck(gameState, Mover(gameState))

\* C2: the board holds exactly one king of each colour, and no piece stands
\* on two squares.  (A square holds one value by the shape of the board.)
C2_OneKingEach ==
    /\ Cardinality(KingsOf(gameState.board, WHITE)) = 1
    /\ Cardinality(KingsOf(gameState.board, BLACK)) = 1
    /\ \A p, q \in PiecesOn(gameState.board) :
          gameState.board[p.y][p.x].id = gameState.board[q.y][q.x].id => p = q

\* A capture that gives check: the checked king is still on the board.
C2_Witness ==
    /\ Returned(gameState)
    /\ LastMove(gameState).capturedPiece # Null
    /\ gameState.isCheck
    /\ C2_OneKingEach

KingSide(rights, color) ==
    IF color = WHITE THEN rights.whiteKingSide ELSE rights.blackKingSide

QueenSide(rights, color) ==
    IF color = WHITE THEN rights.whiteQueenSide ELSE rights.blackQueenSide

BackRow(color) == IF color = WHITE THEN 7 ELSE 0

C3_Step ==
    LET m == LastMove(gameState')
        p == m.piece
        before == gameState.castlingRights
        after == gameState'.castlingRights
        king(c) == p.type = KING /\ p.color = c
        rookLeaves(c, cx) == p.type = ROOK /\ p.color = c /\ m.from = Pos(cx, BackRow(c))
        sameFor(c) == /\ KingSide(after, c) = KingSide(before, c)
                      /\ QueenSide(after, c) = QueenSide(before, c)
    IN  \A c \in { WHITE, BLACK } :
          /\ (KingSide(before, c) /\ ~king(c) /\ ~rookLeaves(c, 7)) => KingSide(after, c)
          /\ (QueenSide(before, c) /\ ~king(c) /\ ~rookLeaves(c, 0)) => QueenSide(after, c)
          /\ king(c) => ~KingSide(after, c) /\ ~QueenSide(after, c)
          /\ rookLeaves(c, 7) =>
                /\ ~KingSide(after, c)
                /\ QueenSide(after, c) = QueenSide(before, c)
                /\ sameFor(Opponent(c))
          /\ rookLeaves(c, 0) =>
                /\ ~QueenSide(after, c)
                /\ KingSide(after, c) = KingSide(before, c)
                /\ sameFor(Opponent(c))

\* C3: a castling right stays set unless the king of that colour moves or
\* the rook leaves that corner; a king move clears both rights of its
\* colour; a rook leaving h1 (h8) clears only the king-side right and one
\* leaving a1 (a8) only the queen-side right.
C3_CastlingRightsUpdate ==
    [][C3_Step]_vars

\* The unmoved white rook has just left h1: only the king-side right is lost.
C3_Witness ==
    /\ Returned(gameState)
    /\ LastMove(gameState).piece.type = ROOK
    /\ LastMove(gameState).piece.color = WHITE
    /\ ~LastMove(gameState).piece.hasMoved
    /\ LastMove(gameState).from = Pos(7, 7)
    /\ ~gameState.castlingRights.whiteKingSide
    /\ gameState.castlingRights.whiteQueenSide

\* C4: a castling right that is false stays false.
C4_RightsNeverRestored ==
    [][ /\ ~gameState.castlingRights.whiteKingSide => ~gameState'.castlingRights.whiteKingSide
        /\ ~gameState.castlingRights.whiteQueenSide => ~gameState'.castlingRights.whiteQueenSide
        /\ ~gameState.castlingRights.blackKingSide => ~gameState'.castlingRights.blackKingSide
        /\ ~gameState.castlingRights.blackQueenSide => ~gameState'.castlingRights.blackQueenSide
      ]_vars

\* White has lost both rights and has since moved a rook.
C4_Witness ==
    /\ Returned(gameState)
    /\ LastMove(gameState).piece.color = WHITE
    /\ LastMove(gameState).piece.type = ROOK
    /\ LastMove(gameState).piece.hasMoved
    /\ ~gameState.castlingRights.whiteKingSide
    /\ ~gameState.castlingRights.whiteQueenSide

\* The state with the king taken from `from` and stood on file kx of its row.
KingPlacedAt(gs, from, kx) ==
    LET king == gs.board[from.y][from.x]
    IN  [gs EXCEPT !.board =
            [[gs.board EXCEPT ![from.y][from.x] = Null]
                EXCEPT ![from.y][kx] = [king EXCEPT !.position = Pos(kx, from.y)]]]

\* What the rules ask of a castling move of the king on `from` to `to`.
CastlingConditions(gs, from, to) ==
    LET king == gs.board[from.y][from.x]
        kingSide == to.x > from.x
        rookX == IF kingSide THEN 7 ELSE 0
        rook == gs.board[BackRow(king.color)][rookX]
        step == IF kingSide THEN 1 ELSE -1
        between == { bx \in Coord : IF kingSide THEN from.x < bx /\ bx < rookX
                                                ELSE rookX < bx /\ bx < from.x }
    IN  /\ to.y = from.y
        /\ ~king.hasMoved
        /\ IF kingSide THEN KingSide(gs.castlingRights, king.color)
                       ELSE QueenSide(gs.castlingRights, king.color)
        /\ rook # Null /\ rook.type = ROOK /\ rook.color = king.color /\ ~rook.hasMoved
        /\ \A bx \in between : gs.board[from.y][bx] = Null
        /\ ~isKingInCheck(gs, king.color)
        /\ ~isKingInCheck(KingPlacedAt(gs, from, from.x + step), king.color)
        /\ ~isKingInCheck(KingPlacedAt(gs, from, from.x + 2 * step), king.color)

TwoFileKingMoves(gs) ==
    { m \in [from : KingsOf(gs.board, gs.currentPlayer), to : Squares] :
        Abs(m.to.x - m.from.x) = 2 }

\* C5: isValidMove accepts a two-file king move only if the king and the
\* corner rook have not moved, the right is set, the squares between them
\* are empty, the king is not in check and it neither crosses nor lands on
\* an attacked square.
C5_CastlingOnlyWhenAllowed ==
    \A m \in TwoFileKingMoves(gameState) :
        isValidMove(gameState, m.from, m.to) => CastlingConditions(gameState, m.from, m.to)

\* A castling move is accepted.
C5_Witness ==
    \E m \in TwoFileKingMoves(gameState) : isValidMove(gameState, m.from, m.to)

C6_Step ==
    LET m == LastMove(gameState')
        kingSide == m.to.x > m.from.x
        rookFromX == IF kingSide THEN 7 ELSE 0
        rookToX == IF kingSide THEN 5 ELSE 3
        row == m.from.y
        rookBefore == gameState.board[row][rookFromX]
        rookAfter == gameState'.board[row][rookToX]
        kingAfter == gameState'.board[m.to.y][m.to.x]
    IN  (m.piece.type = KING /\ Abs(m.to.x - m.from.x) = 2 /\ m.to.y = m.from.y) =>
          /\ rookBefore.type = ROOK
          /\ rookBefore.color = m.piece.color
          /\ rookAfter = [rookBefore EXCEPT !.position = Pos(rookToX, row), !.hasMoved = TRUE]
          /\ gameState'.board[row][rookFromX] = Null
          /\ kingAfter.id = m.piece.id
          /\ kingAfter.type = KING
          /\ kingAfter.hasMoved
          /\ m.isCastling

\* C6: when makeMove moves a king two files along its row, the rook goes
\* from the corner to the square the king crossed (file 7 to 5, or 0 to 3)
\* in the same step, the corner is left empty, both pieces have hasMoved
\* and the move is recorded as castling.
C6_CastlingMovesRook ==
    [][C6_Step]_vars

\* Black has castled queen-side.
C6_Witness ==
    /\ Returned(gameState)
    /\ LastMove(gameState).isCastling
    /\ LastMove(gameState).piece.color = BLACK
    /\ LastMove(gameState).to = Pos(2, 0)
    /\ gameState.board[0][3].type = ROOK

C7_Step ==
    LET m == LastMove(gameState')
        landed == gameState'.board[m.to.y][m.to.x]
    IN  /\ gameState'.moves = Append(gameState.moves, m)
        /\ isValidMove(gameState, m.from, m.to)
        /\ gameState.board[m.from.y][m.from.x] = m.piece
        /\ gameState'.board[m.from.y][m.from.x] = Null
        /\ landed.id = m.piece.id
        /\ landed.color = gameState.currentPlayer
        /\ landed.hasMoved
        /\ gameState'.currentPlayer = Opponent(gameState.currentPlayer)

\* C7: makeMove of a valid move leaves the origin empty and the moved piece
\* on the destination with the mover's colour and hasMoved, gives the turn
\* to the other colour and appends exactly one record, with the move's from
\* and to, to the history.
C7_MoveEffect ==
    [][C7_Step]_vars

\* A piece that had not moved before has captured.
C7_Witness ==
    /\ Returned(gameState)
    /\ LastMove(gameState).capturedPiece # Null
    /\ ~LastMove(gameState).piece.hasMoved
    /\ gameState.board[LastMove(gameState).to.y][LastMove(gameState).to.x].hasMoved

\* C8: in a state returned by makeMove, isCheckmate is set exactly when the
\* side to move is in check and has no legal move; then the game is over
\* and the winner is the colour that just moved.
C8_CheckmateFlag ==
    Returned(gameState) =>
        /\ gameState.isCheckmate <=>
              /\ isKingInCheck(gameState, gameState.currentPlayer)
              /\ getAllPossibleMoves(gameState, Undefined) = {}
        /\ gameState.isCheckmate =>
              /\ gameState.isGameOver
              /\ gameState.winner = Mover(gameState)
              /\ gameState.winner = Opponent(gameState.currentPlayer)

C8_Witness ==
    /\ Returned(gameState)
    /\ gameState.isCheckmate
    /\ getAllPossibleMoves(gameState, Undefined) = {}

\* C9: in a state returned by makeMove, isStalemate is set exactly when the
\* side to move is not in check and has no legal move; isStalemate and
\* isCheckmate are never both set, and a stalemate has no winner.
C9_StalemateFlag ==
    Returned(gameState) =>
        /\ gameState.isStalemate <=>
              /\ ~isKingInCheck(gameState, gameState.currentPlayer)
              /\ getAllPossibleMoves(gameState, Undefined) = {}
        /\ ~(gameState.isStalemate /\ gameState.isCheckmate)
        /\ gameState.isStalemate => gameState.winner = Undefined

C9_Witness ==
    /\ Returned(gameState)
    /\ gameState.isStalemate
    /\ getAllPossibleMoves(gameState, Undefined) = {}

\* C10: in a state returned by makeMove, isCheck says whether the side now
\* to move is in check, and isGameOver is isCheckmate or isStalemate.
C10_FlagsAgreeWithBoard ==
    Returned(gameState) =>
        /\ gameState.isCheck <=> isKingInCheck(gameState, gameState.currentPlayer)
        /\ gameState.isGameOver <=> (gameState.isCheckmate \/ gameState.isStalemate)

\* The side to move is in check and the game goes on.
C10_Witness ==
    /\ Returned(gameState)
    /\ gameState.isCheck
    /\ ~gameState.isGameOver

\* The squares of the pawns of one colour that stand on a given row.
PawnsOnRow(board, color, y) ==
    { x \in Coord : board[y][x] # Null /\ board[y][x].type = PAWN
                                      /\ board[y][x].color = color }

\* The 20 opening moves: each pawn one or two squares forward, each knight
\* to the two squares in front of the pawns.
OpeningMoves ==
    { << Pos(x, 6), Pos(x, 6 - k) >> : x \in Coord, k \in {1, 2} }
        \cup { << Pos(1, 7), Pos(0, 5) >>, << Pos(1, 7), Pos(2, 5) >>,
               << Pos(6, 7), Pos(5, 5) >>, << Pos(6, 7), Pos(7, 5) >> }

\* C11: in the state built by createInitialState white has exactly 20 legal
\* moves: the single and the double push of each of the 8 pawns and the two
\* moves of each knight; no other piece has a legal move.
C11_TwentyOpeningMoves ==
    gameState.moves = << >> =>
        LET all == getAllPossibleMoves(gameState, WHITE)
        IN  /\ Cardinality(all) = 20
            /\ { << m.from, m.to >> : m \in all } = OpeningMoves
            /\ \A m \in all : m.piece.type \in {PAWN, KNIGHT}
            /\ Cardinality({ m \in all : m.piece.type = PAWN }) = 16
            /\ Cardinality({ m \in all : m.piece.type = KNIGHT }) = 4

\* The initial position, white to move, with its moves generated.
C11_Witness ==
    /\ gameState = createInitialState("game", "White", "Black")
    /\ getAllPossibleMoves(gameState, Undefined) # {}

\* A pawn has just moved onto the last rank of its colour.
PawnReachedLastRank(gs) ==
    /\ Returned(gs)
    /\ LastMove(gs).piece.type = PAWN
    /\ LastMove(gs).to.y = (IF LastMove(gs).piece.color = WHITE THEN 0 ELSE 7)

C12_Step ==
    /\ PawnReachedLastRank(gameState') =>
          LET m == LastMove(gameState')
              q == gameState'.board[m.to.y][m.to.x]
          IN  /\ q # Null
              /\ q.type = QUEEN
              /\ q.color = m.piece.color
              /\ q.id = m.piece.id
              /\ gameState'.board[m.from.y][m.from.x] = Null
    /\ PawnsOnRow(gameState'.board, WHITE, 0) = {}
    /\ PawnsOnRow(gameState'.board, BLACK, 7) = {}

\* C12: when makeMove moves a pawn onto the last rank of its colour, the
\* destination square holds a queen of that colour afterwards and the origin
\* square is empty; no state returned by makeMove has a white pawn on row 0
\* or a black pawn on row 7.
C12_PromotionToQueen == [][C12_Step]_vars

\* Black has just promoted a pawn.
C12_Witness ==
    /\ PawnReachedLastRank(gameState)
    /\ LastMove(gameState).piece.color = BLACK
    /\ LastMove(gameState).promotedTo = QUEEN

ProbeCoord == -1..8

\* isValidMove as a call from JavaScript: indexing the board with a row that
\* does not exist yields undefined, and indexing undefined raises a
\* TypeError; indexing an existing row with a column that does not exist
\* yields undefined, which is treated as an empty square.
isValidMoveCall(gs, from, to) ==
    IF from.y \notin Coord THEN "TypeError"
    ELSE IF from.x \notin Coord THEN "false"
    ELSE IF isValidMove(gs, from, to) THEN "true" ELSE "false"

\* C14: isValidMove answers true or false for every origin and destination,
\* coordinates outside the board included, and never raises an exception.
C14_NeverThrows ==
    \A fx \in ProbeCoord, fy \in ProbeCoord, tx \in ProbeCoord, ty \in ProbeCoord :
        isValidMoveCall(gameState, Pos(fx, fy), Pos(tx, ty)) \in {"true", "false"}

\* The state passed to the last call on the heap, as it was before the call
\* and as it is after it.
InputBefore == Deref(call.before, call.gameState)

InputAfter == Deref(heap, call.gameState)

\* The calls on the heap compute what the engine computes by value.
HeapAgrees ==
    /\ Deref(Held, stateRef) = gameState
    /\ call.op = "makeMove" =>
          Deref(heap, call.returned) = makeMove(InputBefore, call.from, call.to)
    /\ call.op = "isValidMove" =>
          call.returned = isValidMove(InputBefore, call.from, call.to)
    /\ call.op = "getAllPossibleMoves" =>
          [i \in 1..Len(call.returned) |->
              [call.returned[i] EXCEPT !.piece = At(heap, @)]]
            = possibleMoves(InputBefore, call.color)

OwnObjects(h, gameStateRef) ==
    LET object == At(h, gameStateRef)
    IN  { gameStateRef, object.board, object.castlingRights, object.moves }
          \cup { At(h, object.board)[py] : py \in Coord }

----------------------------------------------------------------------------
(* Properties of the transposition table                                   *)

\* The indices of the pairs stored under the key of a position.
StoredFor(position) ==
    { i \in 1..Len(tt.table) : tt.table[i].key = hash(position) }

\* C16: get(position, d) returns the entry stored under the position's key
\* exactly when there is one and its depth is at least d, and null
\* otherwise; with an entry of depth 3 stored, get at depth 5 misses and get
\* at depth 2 or 3 hits.
C16_GetHitsAtDepth ==
    ttReturned.op = "get" =>
        LET stored == StoredFor(ttReturned.position)
            deepEnough == { i \in stored :
                              tt.table[i].value.depth >= ttReturned.depth }
        IN  /\ Cardinality(stored) <= 1
            /\ deepEnough # {} =>
                  \A i \in deepEnough : ttReturned.entry = tt.table[i].value
            /\ deepEnough = {} => ttReturned.entry = Null
            /\ (\E i \in stored : tt.table[i].value.depth = 3) =>
                  /\ ttReturned.depth = 5 => ttReturned.entry = Null
                  /\ ttReturned.depth \in {2, 3} => ttReturned.entry # Null

\* get at depth 5 has missed an entry stored at depth 3.
C16_Witness ==
    /\ ttReturned.op = "get"
    /\ ttReturned.depth = 5
    /\ \E i \in StoredFor(ttReturned.position) : tt.table[i].value.depth = 3
    /\ ttReturned.entry = Null

C17_Step ==
    \A i \in 1..Len(tt.table) :
        LET after == MapGet(tt'.table, tt.table[i].key)
        IN  after # Null => after.depth >= tt.table[i].value.depth

\* C17: a call of set never leaves under a key a result of smaller depth
\* than the one stored under it before the call: a result stored at depth D
\* is never replaced by one computed at a depth smaller than D.
C17_DeeperNeverReplaced == [][C17_Step]_vars

\* The entry at index i is deleted by the cleanup a call of set starts with.
EvictedByCleanup(i) ==
    /\ Len(tt.table) > tt.cleanupThreshold
    /\ i \in Removed(tt.table)

C17_AmendedStep ==
    \A i \in 1..Len(tt.table) :
        LET after == MapGet(tt'.table, tt.table[i].key)
        IN  ~EvictedByCleanup(i) =>
                /\ after # Null
                /\ after.depth >= tt.table[i].value.depth
                /\ after.depth = tt.table[i].value.depth =>
                      after.timestamp >= tt.table[i].value.timestamp

\* C17 (amended): set overwrites the entry it finds under the key only with
\* a result of at least its depth, so the depth stored under a key never
\* decreases while the entry is kept; the depth does decrease when the
\* cleanup that set starts with deletes the entry, as one of the oldest, and
\* a shallower result is then stored under the key.
C17_DeeperKeptUnlessEvicted == [][C17_AmendedStep]_vars

\* set has just been refused: the result stored under the key is deeper
\* than the one passed.
C17_Witness ==
    /\ ttReturned.op = "set"
    /\ \E i \in StoredFor(ttReturned.position) :
          tt.table[i].value.depth > ttReturned.depth

\* C18: the table never holds more entries than its maxSize, whatever
\* maxSize >= 1 it was built with and whatever positions are stored.
C18_SizeBounded == Len(tt.table) <= tt.maxSize

----------------------------------------------------------------------------
(* Properties of the search                                                *)

\* The legal moves of the side to move in the position findBestMove was
\* given.
LegalMoves == getAllPossibleMoves(gameState, Undefined)

\* C19: findBestMove returns null when the side to move has no legal move;
\* when it has exactly one it returns that move without any search
\* iteration: minimax is not called and the transposition table is neither
\* read nor written.
C19_NoSearchWithoutChoice ==
    ai.pc = "returned" =>
        /\ LegalMoves = {} =>
              /\ ai.result = Null
              /\ ~ai.minimaxCalled /\ ~ai.ttAccessed
        /\ Len(ai.moves) = 1 =>
              /\ ai.result = ai.moves[1]
              /\ \E m \in LegalMoves :
                    /\ LegalMoves = {m}
                    /\ ai.result.from = m.from /\ ai.result.to = m.to
              /\ ai.depth = 0
              /\ ~ai.minimaxCalled /\ ~ai.ttAccessed
              /\ tt = TranspositionTable(1000000)

\* findBestMove has returned the only legal move.
C19_Witness ==
    /\ ai.pc = "returned"
    /\ Cardinality(LegalMoves) = 1
    /\ ai.result = ai.moves[1]

\* C20: whenever the side to move has a legal move, findBestMove returns a
\* legal move and not null, whatever the time limit and whenever the clock
\* passes it, before or during the first depth included.
C20_NeverNullWithMoves ==
    (ai.pc = "returned" /\ LegalMoves # {}) =>
        /\ ai.result # Null
        /\ \E m \in LegalMoves :
              ai.result.from = m.from /\ ai.result.to = m.to

\* The step leaves the loop over the ordered moves before every move of the
\* depth has been searched: the time limit was passed.
DepthInterrupted ==
    /\ ai.pc = "search"
    /\ ai'.pc # "search"
    /\ ai.index <= Len(ai.orderedMoves)

\* C21: when the time limit is passed while a depth is in progress,
\* findBestMove keeps the move and the score of the last depth that was
\* completed: the partial result of the interrupted depth does not replace
\* them.
C21_FallsBackToCompletedDepth ==
    [][(DepthInterrupted /\ ai.bestMove # Null) =>
          /\ ai'.bestMove = ai.bestMove
          /\ ai'.bestScore = ai.bestScore]_vars

----------------------------------------------------------------------------
(* Properties of the search below the root                                 *)

\* The last call of minimax returned for a position, reached with moves
\* still to be searched below it, in which the side to move has no legal
\* move.
NoMoveAtDepth ==
    /\ search.returned.via # "none"
    /\ ~search.returned.isNull
    /\ search.returned.depth # 0
    /\ getAllPossibleMoves(search.returned.gs, search.returned.gs.currentPlayer) = {}

\* C22: a position reached in minimax at non-zero remaining depth in which
\* the side to move has no legal move is scored as a mate when that side is
\* in check, with a magnitude of 10000 less a depth term and the sign that
\* favours the side not in check, and exactly 0 when it is not in check.
C22_NoMoveScoredAsMateOrDraw ==
    NoMoveAtDepth =>
        LET returned == search.returned
        IN  IF isKingInCheck(returned.gs, returned.gs.currentPlayer)
            THEN /\ Abs(returned.score) \in (10000 - MAX_DEPTH)..10000
                 /\ returned.isMaximizing => returned.score < 0
                 /\ ~returned.isMaximizing => returned.score > 0
            ELSE returned.score = 0

\* Every position without a legal move that minimax is called for has been
\* flagged as over by makeMove, and is scored by the quiescence search.
NoMoveScoredByQuiescence ==
    NoMoveAtDepth => search.returned.via = "quiescence"

\* The calls of findBestMove that have returned.
Calls == IF ai.pc = "returned" THEN Append(search.calls, Found) ELSE search.calls

\* C23: two calls of findBestMove for the same position with the same
\* maxDepth, no time limit being reached, return the same move with the same
\* score, also when the table has been filled in between by the first call
\* or by the search of another position.
C23_SameCallSameResult ==
    \A i \in 1..Len(Calls), j \in 1..Len(Calls) :
        (Calls[i].position = Calls[j].position /\ Calls[i].maxDepth = Calls[j].maxDepth)
            => Calls[i].move = Calls[j].move /\ Calls[i].score = Calls[j].score

----------------------------------------------------------------------------
(* Properties of the ChessAIManager                                        *)

\* findBestMove of the manager is called and returns.
ManagerRequest == manager.answer = NoAnswer /\ manager'.answer # NoAnswer

\* The places of the calls of callee among the calls of an answer.
CallsOf(answer, callee) ==
    { i \in 1..Len(answer.calls) : answer.calls[i].callee = callee }

\* C24: when the opening book is enabled and the position is in the opening
\* phase, findBestMove of the manager asks OpeningBook.getBookMove before
\* any search; a move the book gives is returned with openingBookHits = 1
\* and ChessAI.findBestMove is not called for that request; the search runs
\* only if the book is disabled, the position is past the opening phase, or
\* the book gave null.
C24_BookBeforeSearch ==
    [][ManagerRequest =>
          LET answer == manager'.answer
              book == CallsOf(answer, "OpeningBook.getBookMove")
              searches == CallsOf(answer, "ChessAI.findBestMove")
          IN  /\ (manager.config.useOpeningBook /\ isInOpeningPhase(gameState)) =>
                    /\ book # {}
                    /\ \A i \in book, j \in searches : i < j
              /\ \A i \in book :
                    answer.calls[i].returned # Null =>
                        /\ answer.move = answer.calls[i].returned
                        /\ answer.stats.openingBookHits = 1
                        /\ manager'.stats.openingBookHits = 1
                        /\ searches = {}
              /\ searches # {} =>
                    \/ ~manager.config.useOpeningBook
                    \/ ~isInOpeningPhase(gameState)
                    \/ /\ book # {}
                       /\ \A i \in book : answer.calls[i].returned = Null]_vars

\* The book gave a move, which was returned without a search.
C24_Witness ==
    /\ manager.answer # NoAnswer
    /\ \E i \in CallsOf(manager.answer, "OpeningBook.getBookMove") :
          /\ manager.answer.calls[i].returned # Null
          /\ manager.answer.move = manager.answer.calls[i].returned
    /\ CallsOf(manager.answer, "ChessAI.findBestMove") = {}
    /\ manager.answer.stats.openingBookHits = 1

\* The book was asked and gave null, and the search ran.
BookGaveNull ==
    /\ manager.answer # NoAnswer
    /\ \E i \in CallsOf(manager.answer, "OpeningBook.getBookMove") :
          manager.answer.calls[i].returned = Null
    /\ CallsOf(manager.answer, "ChessAI.findBestMove") # {}

\* C25: an error the search raises inside findBestMove of the manager does
\* not reach the caller: the manager returns a move of the legal moves of
\* the side to move whenever there is one, and null only when there is none.
C25_SearchErrorFallsBack ==
    [][ManagerRequest =>
          LET answer == manager'.answer
              searches == CallsOf(answer, "ChessAI.findBestMove")
              legal == { m \in [from : Squares, to : Squares] :
                           isValidMove(gameState, m.from, m.to) }
          IN  (\E i \in searches : answer.calls[i].threw) =>
                  /\ ~answer.rejected
                  /\ legal # {} =>
                        /\ answer.move # Null
                        /\ \E m \in legal :
                              /\ answer.move.from = m.from
                              /\ answer.move.to = m.to
                              /\ answer.move.piece
                                   = gameState.board[m.from.y][m.from.x]
                  /\ legal = {} => answer.move = Null]_vars

\* The search threw where the side to move is in check and has a legal
\* move, and the manager returned one.
C25_Witness ==
    /\ manager.answer # NoAnswer
    /\ \E i \in CallsOf(manager.answer, "ChessAI.findBestMove") :
          manager.answer.calls[i].threw
    /\ gameState.isCheck
    /\ manager.answer.move # Null
    /\ isValidMove(gameState, manager.answer.move.from, manager.answer.move.to)

\* The search threw where there is no legal move, and the manager returned
\* null.
SearchThrewWithoutMoves ==
    /\ manager.answer # NoAnswer
    /\ \E i \in CallsOf(manager.answer, "ChessAI.findBestMove") :
          manager.answer.calls[i].threw
    /\ manager.answer.move = Null

\* The table "Difficulty Levels" of the documentation of the manager, the
\* time limits in milliseconds.
DifficultyLevels(difficulty) ==
    CASE difficulty = BEGINNER -> [depth |-> 2, timeLimit |-> 1 * 1000]
      [] difficulty = INTERMEDIATE -> [depth |-> 3, timeLimit |-> 3 * 1000]
      [] difficulty = ADVANCED -> [depth |-> 4, timeLimit |-> 5 * 1000]
      [] difficulty = EXPERT -> [depth |-> 5, timeLimit |-> 8 * 1000]
      [] difficulty = MASTER -> [depth |-> 6, timeLimit |-> 15 * 1000]

\* C28: for each difficulty level the depth and the time limit findBestMove
\* of the manager passes to the search are those of the documented table:
\* Beginner 2 and 1 s, Intermediate 3 and 3 s, Advanced 4 and 5 s, Expert 5
\* and 8 s, Master 6 and 15 s.
C28_DepthAndTimeAsDocumented ==
    [][ManagerRequest =>
          LET answer == manager'.answer
          IN  \A i \in CallsOf(answer, "ChessAI.findBestMove") :
                 /\ answer.calls[i].maxDepth
                      = DifficultyLevels(manager.config.difficulty).depth
                 /\ answer.calls[i].timeLimit
                      = DifficultyLevels(manager.config.difficulty).timeLimit]_vars

\* What the search is given at the levels other than Intermediate and
\* Master is what the table says.
OtherLevelsAsDocumented ==
    [][(ManagerRequest /\ manager.config.difficulty \notin { INTERMEDIATE, MASTER }) =>
          LET answer == manager'.answer
          IN  \A i \in CallsOf(answer, "ChessAI.findBestMove") :
                 /\ answer.calls[i].maxDepth
                      = DifficultyLevels(manager.config.difficulty).depth
                 /\ answer.calls[i].timeLimit
                      = DifficultyLevels(manager.config.difficulty).timeLimit]_vars

----------------------------------------------------------------------------
(* Properties of the GameStateManager                                      *)

\* makeMove of the manager is called and returns.
MakeMoveCalled ==
    /\ gsm' # gsm
    /\ gsm'.called.op = "makeMove"

\* C26: makeMove of the manager returns false and leaves the state it holds
\* as it was (side to move, board, history) when isValidMove rejects the
\* move; it returns true only when the move was applied, and then the side
\* to move has changed and the history is one move longer.
C26_RejectedMoveChangesNothing ==
    [][MakeMoveCalled =>
          LET from == gsm'.called.from
              to == gsm'.called.to
              before == gsm.gameState
              after == gsm'.gameState
          IN  /\ ~isValidMove(before, from, to) =>
                    /\ gsm'.called.returned = FALSE
                    /\ after.currentPlayer = before.currentPlayer
                    /\ after.board = before.board
                    /\ Len(after.moves) = Len(before.moves)
                    /\ after = before
              /\ gsm'.called.returned = TRUE =>
                    /\ isValidMove(before, from, to)
                    /\ after = makeMove(before, from, to)
                    /\ after.currentPlayer = Opponent(before.currentPlayer)
                    /\ Len(after.moves) = Len(before.moves) + 1]_vars

\* A move was rejected in the middle of a game.
C26_Witness ==
    /\ gsm.called.op = "makeMove"
    /\ gsm.called.returned = FALSE
    /\ ~isValidMove(gsm.gameState, gsm.called.from, gsm.called.to)
    /\ ~gsm.gameState.isGameOver
    /\ Len(gsm.gameState.moves) = 2

\* A move was applied.
MoveApplied ==
    /\ gsm.called.op = "makeMove"
    /\ gsm.called.returned = TRUE
    /\ Len(gsm.gameState.moves) = 3

\* The events the last call delivered to a listener, in their order.
DeliveredTo(listener) ==
    LET own == SelectSeq(gsm.delivered, LAMBDA d : d.listener = listener)
    IN  [i \in 1..Len(own) |-> own[i].event]

\* The listeners in the array.
Registered == { gsm.eventListeners[i] : i \in 1..Len(gsm.eventListeners) }

\* The events of a move that was applied, for one listener.
EventsOfMove ==
    LET gs == gsm.gameState
        move == GameStateChangeEvent("move", gs, gs.moves[Len(gs.moves)], Null)
        gameEnd == GameStateChangeEvent("gameEnd", gs, Null, evaluateGameResult(gs))
    IN  IF gs.isGameOver THEN << move, gameEnd >> ELSE << move >>

\* C27: a makeMove that succeeds delivers to each registered listener
\* exactly one 'move' event with the new state and the move appended, and
\* after it a 'gameEnd' event exactly when the move ended the game; a
\* makeMove that is rejected delivers nothing; a listener removed with
\* removeEventListener receives no later event.
C27_EventsOfMakeMove ==
    /\ (gsm.called.op = "makeMove" /\ gsm.called.returned = TRUE) =>
          \A listener \in Registered : DeliveredTo(listener) = EventsOfMove
    /\ (gsm.called.op = "makeMove" /\ gsm.called.returned = FALSE) =>
          gsm.delivered = << >>
    /\ \A i \in 1..Len(gsm.delivered) :
          gsm.delivered[i].listener \notin gsm.removed

\* No listener is in the array twice.
AddedOnce ==
    \A i, j \in 1..Len(gsm.eventListeners) :
        gsm.eventListeners[i] = gsm.eventListeners[j] => i = j

\* While no listener is in the array twice and none that was removed is
\* still in it, the events are as C27 says.
EventsOfMakeMoveIfAddedOnce ==
    (AddedOnce /\ \A listener \in gsm.removed : listener \notin Registered) =>
        C27_EventsOfMakeMove

\* A move that ended the game was delivered to a listener.
GameEndDelivered ==
    /\ gsm.called.op = "makeMove"
    /\ gsm.gameState.isGameOver
    /\ \E listener \in Registered : Len(DeliveredTo(listener)) = 2

----------------------------------------------------------------------------
(* Properties of the export to the clipboard                               *)

\* The words of the numbered stream: before each move of white its number
\* and a full stop, and the notation of each move.
Tokens(moves) ==
    Flatten([i \in 1..Len(moves) |->
                IF i % 2 = 1
                THEN << toString((i + 1) \div 2) \o << "." >>,
                        getMoveNotation(moves[i]) >>
                ELSE << getMoveNotation(moves[i]) >>], 1)

\* C29: the text copied to the clipboard is the numbered stream of the
\* moves, whatever their number: white's n-th move as "n." and its
\* notation, black's as its notation, and one space between every two
\* words, also between a move of black and the number that follows it.
C29_NumberedStream ==
    [][clipboard' # clipboard =>
          clipboard' = join(Tokens(gsm.gameState.moves), << " " >>, 1)]_vars

\* Up to two moves the text copied is the numbered stream.
NumberedStreamUptoTwoMoves ==
    [][(clipboard' # clipboard /\ Len(gsm.gameState.moves) <= 2) =>
          clipboard' = join(Tokens(gsm.gameState.moves), << " " >>, 1)]_vars

----------------------------------------------------------------------------
(* Properties of MoveGenerator.getAllValidMoves                            *)

\* The piece on from is of the colour and may move to the square to.
LegalPair(gs, color, from, to) ==
    /\ gs.board[from.y][from.x] # Null
    /\ gs.board[from.y][from.x].color = color
    /\ isValidMove(gs, from, to)

\* A pawn on from would reach its last rank on to.
OntoLastRank(gs, from, to) ==
    /\ gs.board[from.y][from.x].type = PAWN
    /\ \/ gs.board[from.y][from.x].color = WHITE /\ to.y = 0
       \/ gs.board[from.y][from.x].color = BLACK /\ to.y = 7

\* The places of the records of moves that go from the square from to the
\* square to.
RecordsOf(moves, from, to) ==
    { k \in 1..Len(moves) : moves[k].from = from /\ moves[k].to = to }

\* What C30 says of the array moves generated for the colour in gs.
AsGenerated(gs, color, moves) ==
    \A from \in Squares, to \in Squares :
        LET records == RecordsOf(moves, from, to)
        IN  IF ~LegalPair(gs, color, from, to) THEN records = {}
            ELSE IF OntoLastRank(gs, from, to)
            THEN /\ Cardinality(records) = 4
                 /\ { moves[k].promotedTo : k \in records }
                        = { QUEEN, ROOK, BISHOP, KNIGHT }
            ELSE /\ Cardinality(records) = 1
                 /\ \A k \in records :
                        /\ moves[k].promotedTo = Undefined
                        /\ (/\ moves[k].piece.type = KING
                            /\ Abs(to.x - from.x) = 2)
                           => /\ moves[k].isCastling
                              /\ moves[k].notation =
                                    IF to.x > from.x
                                    THEN << "O", "-", "O" >>
                                    ELSE << "O", "-", "O", "-", "O" >>

\* C30: getAllValidMoves gives one record for each pair of squares between
\* which a piece of the colour may move and none for another pair, but for
\* a pawn moving onto its last rank four records, promoted to the queen,
\* the rook, the bishop and the knight, and none without promotedTo; the
\* record of a king moving two files is tagged isCastling and its notation
\* is O-O toward the higher x and O-O-O toward the lower.
C30_OneRecordForEachMove ==
    \A color \in { WHITE, BLACK } :
        AsGenerated(gameState, color, getAllValidMovesNotated(gameState, color))

\* A pawn of the side to move may promote, and getAllValidMoves gives its
\* move four times.
C30_Witness ==
    LET moves == getAllValidMovesNotated(gameState, gameState.currentPlayer)
    IN  \E from \in Squares, to \in Squares :
            /\ LegalPair(gameState, gameState.currentPlayer, from, to)
            /\ OntoLastRank(gameState, from, to)
            /\ Cardinality(RecordsOf(moves, from, to)) = 4

\* The side to move may castle king-side, and getAllValidMoves tags the
\* move and writes it O-O.
KingSideCastlingGenerated ==
    LET moves == getAllValidMovesNotated(gameState, gameState.currentPlayer)
    IN  \E k \in 1..Len(moves) :
            moves[k].isCastling /\ moves[k].notation = << "O", "-", "O" >>

\* The side to move may castle queen-side, and getAllValidMoves tags the
\* move and writes it O-O-O.
QueenSideCastlingGenerated ==
    LET moves == getAllValidMovesNotated(gameState, gameState.currentPlayer)
    IN  \E k \in 1..Len(moves) :
            /\ moves[k].isCastling
            /\ moves[k].notation = << "O", "-", "O", "-", "O" >>

----------------------------------------------------------------------------
(* Properties of the pieces on the board                                   *)

\* The square on which createInitialBoard puts the piece with the id.
InitialSquare(id) ==
    CHOOSE p \in Squares :
        /\ createInitialBoard[p.y][p.x] # Null
        /\ createInitialBoard[p.y][p.x].id = id

\* The squares of the board that hold a piece.
Occupied(board) == { p \in Squares : board[p.y][p.x] # Null }

\* C37: in every state reached from createInitialState through makeMove,
\* each piece's position field is the square that holds it, and each piece
\* that stands on another square than its initial one has hasMoved = true.
C37_PiecesKnowTheirSquares ==
    \A p \in Occupied(gameState.board) :
        LET piece == gameState.board[p.y][p.x]
        IN  /\ piece.position = p
            /\ p # InitialSquare(piece.id) => piece.hasMoved

\* A side has castled and a pawn has been promoted somewhere in the games:
\* here the king and the rook stand on their squares after castling.
C37_Witness ==
    /\ Len(gameState.moves) > 0
    /\ \E p \in Occupied(gameState.board) :
        /\ gameState.board[p.y][p.x].type = ROOK
        /\ p.x \in { 3, 5 }
        /\ p # InitialSquare(gameState.board[p.y][p.x].id)
        /\ \E k \in Occupied(gameState.board) :
            /\ gameState.board[k.y][k.x].type = KING
            /\ k.y = p.y
            /\ Abs(k.x - p.x) = 1
            /\ k.x \in { 2, 6 }

\* A promoted pawn stands on its last rank as a queen.
PromotedPawnOnBoard ==
    \E p \in Occupied(gameState.board) :
        /\ gameState.board[p.y][p.x].type = QUEEN
        /\ InitialSquare(gameState.board[p.y][p.x].id).y \in { 1, 6 }

----------------------------------------------------------------------------
(* Properties of the promotion moves of the search                         *)

\* The moves getAllValidMoves gives the side to move that carry promotedTo.
PromotionMoves(gs) ==
    LET moves == getAllValidMoves(gs, gs.currentPlayer)
    IN  { moves[k] : k \in { i \in 1..Len(moves) : moves[i].promotedTo # Undefined } }

\* C38: for every move of getAllValidMoves that carries promotedTo = T,
\* makeMove with the move's from and to, as the search and the session
\* apply it, puts a piece of type T on the destination square.
C38_PromotedAsRecorded ==
    \A move \in PromotionMoves(gameState) :
        makeMove(gameState, move.from, move.to).board[move.to.y][move.to.x].type
            = move.promotedTo

\* The move that carries promotedTo = queen puts a queen on the destination.
PromotedToQueenAsRecorded ==
    \A move \in PromotionMoves(gameState) :
        move.promotedTo = QUEEN =>
            makeMove(gameState, move.from, move.to).board[move.to.y][move.to.x].type
                = QUEEN

\* A pawn may promote, and the four records of its move are generated.
PromotionOffered == Cardinality(PromotionMoves(gameState)) >= 4

----------------------------------------------------------------------------
(* Properties of the piece-square tables                                   *)

\* The table getPieceSquareValue reads for a piece of the type.
TableOf(type, endgame) ==
    CASE type = PAWN -> PAWN_TABLE
      [] type = KNIGHT -> KNIGHT_TABLE
      [] type = BISHOP -> BISHOP_TABLE
      [] type = ROOK -> ROOK_TABLE
      [] type = QUEEN -> QUEEN_TABLE
      [] type = KING -> IF endgame THEN KING_END_GAME_TABLE
                        ELSE KING_MIDDLE_GAME_TABLE

\* The pawns that stand one step from their promotion.
PawnsBeforePromotion(gs) ==
    { p \in Occupied(gs.board) :
        /\ gs.board[p.y][p.x].type = PAWN
        /\ p.y = IF gs.board[p.y][p.x].color = WHITE THEN 1 ELSE 6 }

\* The pawns that stand on the row they start on.
PawnsAtHome(gs) ==
    { p \in Occupied(gs.board) :
        /\ gs.board[p.y][p.x].type = PAWN
        /\ p.y = IF gs.board[p.y][p.x].color = WHITE THEN 6 ELSE 1 }

\* C34: a white piece on row y of the board is given the value of row y of
\* its table and a black piece that of row 7 - y, and so a pawn one step
\* from its promotion (white on row 1, black on row 6) is given the 50 of
\* the table.
C34_MirroredForBlack ==
    LET endgame == isEndgame(gameState)
    IN  /\ \A p \in Occupied(gameState.board) :
            LET piece == gameState.board[p.y][p.x]
                row == IF piece.color = WHITE THEN p.y ELSE 7 - p.y
            IN  getPieceSquareValue(piece, p.x, p.y, endgame)
                    = TableOf(piece.type, endgame)[row + 1][p.x + 1]
        /\ \A p \in PawnsBeforePromotion(gameState) :
            getPieceSquareValue(gameState.board[p.y][p.x], p.x, p.y, endgame) = 50

\* A pawn one step from its promotion is given 50.
AdvancedPawnGiven50 ==
    \A p \in PawnsBeforePromotion(gameState) :
        getPieceSquareValue(gameState.board[p.y][p.x], p.x, p.y,
                            isEndgame(gameState)) = 50

\* A pawn on the row it starts on is given 50.
HomePawnGiven50 ==
    \A p \in PawnsAtHome(gameState) :
        getPieceSquareValue(gameState.board[p.y][p.x], p.x, p.y,
                            isEndgame(gameState)) = 50

\* Pawns of both colours stand one step from their promotion in the games.
WhitePawnBeforePromotion ==
    \E p \in PawnsBeforePromotion(gameState) :
        gameState.board[p.y][p.x].color = WHITE

BlackPawnBeforePromotion ==
    \E p \in PawnsBeforePromotion(gameState) :
        gameState.board[p.y][p.x].color = BLACK

----------------------------------------------------------------------------
(* Properties of a game that is over                                       *)

\* A method of the manager was called while the game it holds was over.
CalledWhenOver ==
    /\ gsm.gameState.isGameOver
    /\ gsm' # gsm

\* C35: once the state of the manager has isGameOver = true, makeMove
\* returns false, emits no event and leaves the state as it is, and the
\* game stays over until resetGame or loadGameState is called; resetGame
\* restores white to move, an empty history, isGameOver = false and the
\* initial board.
C35_OverUntilReset ==
    [][/\ (CalledWhenOver /\ gsm'.called.op = "makeMove") =>
            /\ gsm'.called.returned = FALSE
            /\ gsm'.delivered = << >>
            /\ gsm'.gameState = gsm.gameState
       /\ (CalledWhenOver /\ gsm'.called.op \notin { "resetGame", "loadGameState" }) =>
            gsm'.gameState.isGameOver
       /\ (gsm' # gsm /\ gsm'.called.op = "resetGame") =>
            /\ gsm'.gameState.currentPlayer = WHITE
            /\ gsm'.gameState.moves = << >>
            /\ gsm'.gameState.isGameOver = FALSE
            /\ gsm'.gameState.board = createInitialBoard]_vars

\* A move the rules allow was asked of a game that is over, with a listener
\* registered, and was rejected.
C35_Witness ==
    /\ gsm.gameState.isGameOver
    /\ gsm.called.op = "makeMove"
    /\ gsm.called.returned = FALSE
    /\ isValidMove(gsm.gameState, gsm.called.from, gsm.called.to)
    /\ Len(gsm.eventListeners) > 0

\* A game ended by checkmate was asked for a move.
MoveAskedAfterMate ==
    /\ gsm.gameState.isCheckmate
    /\ gsm.called.op = "makeMove"
    /\ gsm.called.returned = FALSE

\* The game has been reset while a listener was registered.
GameReset ==
    /\ gsm.called.op = "resetGame"
    /\ ~gsm.gameState.isGameOver
    /\ Len(gsm.eventListeners) > 0

----------------------------------------------------------------------------
(* Properties of the cleanup of the table                                  *)

\* A call of set returns that found the table above its threshold.
SetCleaned ==
    /\ tt' # tt \/ ttReturned' # ttReturned
    /\ ttReturned'.op = "set"
    /\ Len(tt.table) > tt.cleanupThreshold

\* The entries of the table before the call that the call's cleanup kept.
Kept == { tt.table[i] : i \in 1..Len(tt.table) } \ ttReturned'.removed

\* What C32 says of the entries the cleanup of a call of set deleted.
OldestRemoved ==
    /\ Cardinality(ttReturned'.removed) = FloorOfTwoTenths(Len(tt.table))
    /\ \A gone \in ttReturned'.removed, kept \in Kept :
        /\ gone.value.timestamp <= kept.value.timestamp
        /\ gone.value.timestamp = kept.value.timestamp =>
              gone.value.depth <= kept.value.depth
    /\ MapGet(tt'.table, hash(ttReturned'.position)) # Null
    /\ Len(tt'.table) <= Len(tt.table) - Cardinality(ttReturned'.removed) + 1

\* C32: when set finds more entries than floor(0.8 * maxSize), cleanup
\* deletes floor(0.2 * n) of the n entries before the new entry is written:
\* those with the oldest timestamps and, of equal timestamps, the smallest
\* depths, and none while a strictly older entry is kept.
C32_OldestFifthRemoved == [][SetCleaned => OldestRemoved]_vars

\* The same of the calls during which the clock stands.
OldestFifthRemovedWhileClockStands ==
    [][(SetCleaned /\ now' = now) => OldestRemoved]_vars

\* A call of set deleted the entry inserted first, of depth 2, and kept an
\* entry of the same timestamp and depth 1 that was inserted after it.
DeeperRemoved ==
    /\ ttReturned.op = "set"
    /\ Has(ttReturned, "removed")
    /\ \E gone \in ttReturned.removed, i \in 1..Len(tt.table) :
          /\ gone.key = 1
          /\ gone.value.depth = 2
          /\ tt.table[i].key # 1
          /\ tt.table[i].value.timestamp = gone.value.timestamp
          /\ tt.table[i].value.depth = 1

\* A call of set has deleted an entry in its cleanup.
CleanupRemoved ==
    /\ ttReturned.op = "set"
    /\ Has(ttReturned, "removed")
    /\ ttReturned.removed # {}

----------------------------------------------------------------------------
(* Properties of the entries the search writes to the table                *)

\* The innermost call of minimax returns and writes its score to the table.
MinimaxStored ==
    /\ ai.pc = "minimax"
    /\ tt' # tt

\* The value of the position without pruning: the best, for the side that
\* maximizes or minimizes, of the values of the positions after its moves,
\* each searched with the full window; the quiescence search at depth 0
\* and in a game that is over, the mate and stalemate scores of minimax
\* where there is no move.
RECURSIVE FullValue(_, _, _)
FullValue(gs, depth, isMaximizing) ==
    IF depth = 0 \/ gs.isGameOver
    THEN quiescenceSearch(gs, -Infinity, Infinity, isMaximizing, 3)
    ELSE LET moves == getAllValidMoves(gs, gs.currentPlayer)
             values == { FullValue(makeMove(gs, moves[k].from, moves[k].to),
                                   depth - 1, ~isMaximizing) : k \in 1..Len(moves) }
         IN  IF Len(moves) = 0
             THEN (IF gs.isCheck
                   THEN (IF isMaximizing THEN -10000 + depth ELSE 10000 - depth)
                   ELSE 0)
             ELSE IF isMaximizing
             THEN CHOOSE v \in values : \A w \in values : w <= v
             ELSE CHOOSE v \in values : \A w \in values : v <= w

\* The entry the table holds for the position after the call.
WrittenFor(gs) == MapGet(tt'.table, ZobristHash(gs))

\* C31: minimax writes the entry of a node only after all the children of
\* the node have been explored, with the node type 'exact', and the score
\* it writes is the minimax value of the node at the stored depth, not a
\* bound that a cutoff left.
C31_StoredAfterAllChildren ==
    [][MinimaxStored =>
          /\ Top.explored = Len(Top.orderedMoves)
          /\ WrittenFor(Top.gs).nodeType = "exact"
          /\ WrittenFor(Top.gs).depth = Top.depth
          /\ WrittenFor(Top.gs).score = FullValue(Top.gs, Top.depth, Top.isMaximizing)]_vars

\* The entries are written with the node type 'exact', the depth of the
\* node and the best score of its loop.
StoredAsExact ==
    [][MinimaxStored =>
          /\ WrittenFor(Top.gs).nodeType = "exact"
          /\ WrittenFor(Top.gs).depth = Top.depth
          /\ WrittenFor(Top.gs).score = Top.bestScore]_vars

\* A node whose children were all explored wrote its value.
ValueStoredAfterAllChildren ==
    [][(MinimaxStored /\ Top.explored = Len(Top.orderedMoves)
            /\ Top.alpha < Top.beta) =>
          WrittenFor(Top.gs).score = FullValue(Top.gs, Top.depth, Top.isMaximizing)]_vars

\* A call of minimax has returned from its loop after a cutoff, before it
\* had tried all its moves.
ReturnedAfterCutoff ==
    /\ search.returned.via = "searched"
    /\ MapGet(tt.table, ZobristHash(search.returned.gs)) # Null
    /\ MapGet(tt.table, ZobristHash(search.returned.gs)).score
          # FullValue(search.returned.gs, search.returned.depth,
                      search.returned.isMaximizing)

----------------------------------------------------------------------------
(* Properties of the search at its time limit                              *)

\* C36: a call of minimax that the time limit aborts (it or a call below it
\* returns null) writes no entry to the table: every entry is written by a
\* call that returns a score, and holds that score.
C36_AbortedNodeWritesNothing ==
    [][/\ (ai.pc = "minimax" /\ Top.aborted) => tt' = tt
       /\ search'.returned.isNull => tt' = tt
       /\ tt' # tt =>
            /\ ai.pc = "minimax"
            /\ ~Top.aborted
            /\ ~search'.returned.isNull
            /\ search'.returned.gs = Top.gs
            /\ MapGet(tt'.table, ZobristHash(Top.gs)).score = search'.returned.score]_vars

\* A call of minimax that had reached its loop has returned null at the
\* time limit, after other calls had written their entries, and the table
\* holds nothing for its position.
C36_Witness ==
    /\ search.returned.isNull
    /\ search.returned.depth >= 1
    /\ Len(tt.table) > 0
    /\ MapGet(tt.table, ZobristHash(search.returned.gs)) = Null

\* A call of minimax is aborted after it has explored some of its moves.
AbortedAfterSomeMoves ==
    /\ ai.pc = "minimax"
    /\ Top.aborted
    /\ Top.explored > 0

----------------------------------------------------------------------------
(* Properties of the termination of the search                             *)

\* A step of the iterative deepening: the first iteration is for depth 1
\* and each one for the depth after the last, an iteration is started only
\* for a depth up to min(maxDepth, MAX_DEPTH) and while nine tenths of the
\* time limit have not passed, and none follows an iteration whose score is
\* above 9000 or below -9000.
DeepeningStep ==
    /\ (ai.pc = "idle" /\ ai'.pc = "loop") => ai'.depth = 1
    /\ (ai.pc # "idle" /\ ai'.depth # ai.depth) => ai'.depth = ai.depth + 1
    /\ (ai.pc # "call" /\ ai'.pc = "call") =>
          /\ ai'.depth >= 1
          /\ ai'.depth <= Min(ai'.maxDepth, MAX_DEPTH)
          /\ 10 * (now - ai'.startTime) <= 9 * ai'.timeLimit
    /\ (ai.pc \in { "search", "minimax" } /\ ai'.pc = "loop") =>
          Abs(ai'.bestScore) <= 9000

\* The calls of minimax under way: each has the remaining depth of its
\* caller less one.
DepthsDecrease ==
    \A k \in 1..Len(search.stack) : search.stack[k].depth = ai.depth - k

\* The call of quiescenceSearch made for the next move of the innermost call
\* of minimax, or of searchWithTimeout, when that move leads to a leaf,
\* reaches at most 3 plies below the leaf.
LeafExtended ==
    /\ (/\ ai.pc = "minimax"
        /\ ~Top.aborted
        /\ Top.depth = 1
        /\ Top.index <= Len(Top.orderedMoves)) =>
           LET move == Top.orderedMoves[Top.index]
           IN  quiescenceTraced(makeMove(Top.gs, move.from, move.to), Top.alpha,
                                Top.beta, ~Top.isMaximizing, 3).plies <= 3
    /\ (/\ ai.pc = "search"
        /\ ai.depth = 1
        /\ ai.index <= Len(ai.orderedMoves)) =>
           LET move == ai.orderedMoves[ai.index]
           IN  quiescenceTraced(makeMove(gameState, move.from, move.to), ai.alpha,
                                ai.beta, FALSE, 3).plies <= 3

\* C33: every call of findBestMove returns; the iterative deepening takes
\* the depths 1, 2, ... in their order, at most min(maxDepth, 8) of them,
\* and stops after an iteration whose score is above 9000 in absolute value
\* or when the time is used up; each call of minimax is made with the
\* remaining depth less one, and the quiescence search goes at most 3 plies
\* below a leaf.
C33_SearchTerminates ==
    /\ <>(ai.pc = "returned")
    /\ [][DeepeningStep]_vars
    /\ [](DepthsDecrease /\ LeafExtended)

\* findBestMove has returned after its iterations for the depths 1 and 2.
C33_Witness ==
    /\ ai.pc = "returned"
    /\ ai.depth = 3
    /\ Len(tt.table) > 0

\* findBestMove has returned at the time limit.
ReturnedAtTimeLimit ==
    /\ ai.pc = "returned"
    /\ ai.depth <= 2
    /\ now > ai.startTime

\* findBestMove has returned after an iteration that found a mate score.
ReturnedAfterMateScore ==
    /\ ai.pc = "returned"
    /\ Abs(ai.bestScore) > 9000

\* A quiescence search goes below its leaf.
LeafExtendedByCaptures ==
    /\ ai.pc = "minimax"
    /\ ~Top.aborted
    /\ Top.depth = 1
    /\ Top.index <= Len(Top.orderedMoves)
    /\ LET move == Top.orderedMoves[Top.index]
       IN  quiescenceTraced(makeMove(Top.gs, move.from, move.to), Top.alpha,
                            Top.beta, ~Top.isMaximizing, 3).plies >= 1

----------------------------------------------------------------------------
(* Properties of the computer's moves in the game session                  *)

\* The computer has just made a move.
ComputerHasMoved == session.applied.by # "none"

\* A move of the computer is one move of the side that was to move, and the
\* turn passes to the other side.
OneMoveInItsTurn ==
    ComputerHasMoved =>
        /\ Played(gsm.gameState.moves) =
              Append(session.applied.appliedTo,
                     Played(gsm.gameState.moves)[Len(gsm.gameState.moves)])
        /\ gsm.gameState.currentPlayer = Opponent(session.applied.mover)

\* The computer does not move for the side the human plays.
NotInHumansTurn ==
    ComputerHasMoved => session.applied.mover # session.applied.playerSide

\* The move the computer makes was computed for the position it is made in.
ComputedForThisPosition ==
    ComputerHasMoved => session.applied.computedFor = session.applied.appliedTo

\* C39: whatever the order of the timeout of makeAIMove, the answer of
\* ai.findBestMove, the human's moves and the resets, the computer makes one
\* move in its turn, none in the human's turn, and none that was computed
\* for an earlier position.
C39_ComputerMovesInItsTurn ==
    /\ OneMoveInItsTurn
    /\ NotInHumansTurn
    /\ ComputedForThisPosition

\* makeAIMove plays for the position it finds.
RandomMoveForThisPosition ==
    session.applied.by = "makeAIMove" =>
        session.applied.computedFor = session.applied.appliedTo

\* The answer of ai.findBestMove is applied two moves after the position it
\* was computed for.
StaleMoveApplied ==
    /\ session.applied.by = "findBestMove"
    /\ Len(session.applied.appliedTo) = Len(session.applied.computedFor) + 2

\* The computer moves the pieces of the side the human has chosen.
MovedInHumansTurn ==
    /\ ComputerHasMoved
    /\ session.applied.mover = session.applied.playerSide

\* The computer moves in its own turn with the move computed for the
\* position.
MovedInItsTurn ==
    /\ session.applied.by = "findBestMove"
    /\ session.applied.mover # session.applied.playerSide
    /\ session.applied.playerSide # NoSide
    /\ session.applied.computedFor = session.applied.appliedTo

----------------------------------------------------------------------------
(* Properties of the rooms of the gateway                                  *)

\* The clients in the room of a game, none where there is no room.
RoomOf(gw, gameId) ==
    IF HasKey(gw.gameRooms, gameId) THEN MapGet(gw.gameRooms, gameId) ELSE {}

\* Every room holds at most 2 client ids.
RoomsOfTwo ==
    \A i \in 1..Len(gateway.gameRooms) :
        Cardinality(gateway.gameRooms[i].value) <= 2

\* A step of handleJoinGame for a game whose room holds 2 clients, or for a
\* game id that is not known.
JoinRefused ==
    gateway'.called.op = "joinGame" =>
        LET gameId == gateway'.called.gameId
        IN  /\ (HasKey(gateway.games, gameId)
                /\ Cardinality(RoomOf(gateway, gameId)) = 2) =>
                   /\ gateway'.called.emitted.event = "gameError"
                   /\ gateway'.called.emitted.message = "Game is full"
                   /\ gateway'.gameRooms = gateway.gameRooms
                   /\ gateway'.games = gateway.games
            /\ ~HasKey(gateway.games, gameId) =>
                   /\ gateway'.called.emitted.event = "gameError"
                   /\ gateway'.called.emitted.message = "Game not found"
                   /\ gateway'.gameRooms = gateway.gameRooms
                   /\ gateway'.games = gateway.games

\* C40: whatever createGame, joinGame and disconnect events arrive, a room
\* holds at most 2 client ids; joinGame for a room of 2 is answered with
\* 'Game is full' and changes neither the room nor the game; joinGame for a
\* game id that is not known is answered with 'Game not found' and creates
\* no room.
C40_RoomsOfTwo ==
    /\ []RoomsOfTwo
    /\ [][JoinRefused]_vars

\* A third client was refused at a room of two.
C40_Witness ==
    /\ gateway.called.op = "joinGame"
    /\ gateway.called.emitted.message = "Game is full"
    /\ Cardinality(RoomOf(gateway, gateway.called.gameId)) = 2
    /\ gateway.called.client \notin RoomOf(gateway, gateway.called.gameId)

\* A client asked for a game that was never created, and no room was made.
UnknownGameRefused ==
    /\ gateway.called.op = "joinGame"
    /\ gateway.called.emitted.message = "Game not found"
    /\ ~HasKey(gateway.gameRooms, gateway.called.gameId)

\* A client joined a game whose room was deleted when its last client left.
JoinedAfterAllLeft ==
    /\ gateway.called.op = "joinGame"
    /\ gateway.called.emitted.event = "gameJoined"
    /\ RoomOf(gateway, gateway.called.gameId) = { gateway.called.client }

====
